---- MODULE Spec2Model ----
(***************************************************************************)
(* Live chokepoint detection service (backend/app/services/                *)
(* live_chokepoints.py, cache.py, api/traffic.py) as state machines.       *)
(*                                                                         *)
(* Fixed-point conventions (TLC has integers only):                        *)
(*   - jam factor, jf_min and every numeric tile property: value * 100     *)
(*   - severity: value * 1000  (so severity = jam/10 keeps the digits)     *)
(*   - weight: value * 1000 * WDen, WDen = 2^MaxIncidents, so that every   *)
(*     1.5x incident boost a sample can receive is exact                   *)
(*   - positions: metres north / east of the bbox's south-west corner;     *)
(*     haversine_m(a, b) <= r is dlat^2 + dlon^2 <= r^2 (the sphere is     *)
(*     flat to 1e-6 over the few km of a request bbox)                     *)
(*   - time: seconds                                                       *)
(***************************************************************************)
EXTENDS Integers, Sequences, FiniteSets, TLC

\* ------------------------------------------------------------------ bounds
\* Largest number of incidents an upstream incident response holds.
MaxIncidents == 2
\* Largest number of samples handed to the clusterer in the stage machine.
MaxSamples == 3
\* Number of tiles of the large tile batch (more than the semaphore admits).
NumTiles == 9
\* Batches the tile machine runs one after the other over the small tile list.
MaxRounds == 2
\* Longest feature list handed to the extractor in the extractor machine.
MaxFeatures == 2
\* Number of grid points probed in the extractor machine.
MaxProbes == 2
\* Last instant of the clock, in seconds.
MaxTime == 90
\* Number of requests the request machine makes, one after the other.
MaxRequests == 2

\* ------------------------------------------------------- program constants
SemLimit == 8
ResultTTL == 60
TileTTL == 60
MinZoom == 12
MaxTilesLive == 16
MaxTilesAlt == 32
MaxTilesProbe == 32
MaxAreaKm2 == 8000
GeocodeTTL == 300
MinIncidentCountRadius == 150

\* -------------------------------------------------------------- arithmetic
RECURSIVE Pow2(_)
Pow2(n) == IF n <= 0 THEN 1 ELSE 2 * Pow2(n - 1)

Min2(a, b) == IF a <= b THEN a ELSE b
Max2(a, b) == IF a >= b THEN a ELSE b
Clamp(v, lo, hi) == Max2(lo, Min2(hi, v))
Abs(v) == IF v < 0 THEN 0 - v ELSE v

\* round(a / b) for b > 0, to the nearest integer.
RoundDiv(a, b) == (2 * a + b) \div (2 * b)

\* Weight denominator: a weight w stands for w / (1000 * WDen).
WDen == Pow2(MaxIncidents)

RECURSIVE SumSeq(_)
SumSeq(s) == IF s = <<>> THEN 0 ELSE Head(s) + SumSeq(Tail(s))

\* The subsequence of s at the indices i >= from where keep[i] holds, in order.
RECURSIVE SelectFrom(_, _, _)
SelectFrom(s, keep, from) ==
  IF from > Len(s) THEN <<>>
  ELSE (IF keep[from] THEN <<s[from]>> ELSE <<>>) \o SelectFrom(s, keep, from + 1)

RECURSIVE Flatten(_)
Flatten(ss) == IF ss = <<>> THEN <<>> ELSE Head(ss) \o Flatten(Tail(ss))

\* ------------------------------------------------------------------ cache
\* A store maps keys to entries [exp, v]. The Cache object holds the Redis
\* store and the in-memory store; redis says whether self._redis is set
\* (Redis answered the ping at construction).
EmptyStore == << >>

StorePut(st, k, e) == [x \in (DOMAIN st) \cup {k} |-> IF x = k THEN e ELSE st[x]]
StoreDel(st, k) == [x \in (DOMAIN st) \ {k} |-> st[x]]

Miss == [hit |-> FALSE, v |-> << >>]
Hit(v) == [hit |-> TRUE, v |-> v]

\* _InMemoryTTLCache.get: the entry unless time.time() > expires_at.
MemGet(st, k, t) ==
  IF k \in DOMAIN st /\ ~(t > st[k].exp) THEN Hit(st[k].v) ELSE Miss

\* ... which deletes the entry it finds expired.
MemAfterGet(st, k, t) ==
  IF k \in DOMAIN st /\ t > st[k].exp THEN StoreDel(st, k) ELSE st

\* redis GET of a key written with SETEX: gone once its ttl has elapsed.
RedisGet(st, k, t) ==
  IF k \in DOMAIN st /\ t < st[k].exp THEN Hit(st[k].v) ELSE Miss

\* Cache.get(key) at time t; redisOk: the Redis call does not raise.
CacheGet(c, k, t, redisOk) ==
  IF c.redis
  THEN IF redisOk THEN RedisGet(c.r, k, t) ELSE Miss
  ELSE MemGet(c.m, k, t)

CacheAfterGet(c, k, t, redisOk) ==
  IF c.redis THEN c ELSE [c EXCEPT !.m = MemAfterGet(c.m, k, t)]

\* Cache.set(key, value, ttl) at time t: SETEX, or on a Redis error (and
\* without Redis) the in-memory store.
CacheAfterSet(c, k, v, ttl, t, redisOk) ==
  IF c.redis /\ redisOk
  THEN [c EXCEPT !.r = StorePut(c.r, k, [exp |-> t + ttl, v |-> v])]
  ELSE [c EXCEPT !.m = StorePut(c.m, k, [exp |-> t + ttl, v |-> v])]

NewCache(redis) == [redis |-> redis, r |-> EmptyStore, m |-> EmptyStore]

\* Outcomes of one Redis call: it can fail only where Redis is in use.
RedisOutcomes(c) == IF c.redis THEN BOOLEAN ELSE {TRUE}

\* ---------------------------------------------------------------- settings
\* clean_tomtom_*_api_key: the raw setting stripped of blanks and quotes.
CleanKey(raw) == IF raw = "'KEY'" THEN "KEY" ELSE ""

\* api_key = clean_tomtom_traffic_api_key or clean_tomtom_maps_api_key
ApiKeyOf(settings) ==
  IF CleanKey(settings.traffic) # "" THEN CleanKey(settings.traffic)
  ELSE CleanKey(settings.maps)

HasApiKey(settings) == ApiKeyOf(settings) # ""

\* ------------------------------------------------------------ tile coverage
\* A bbox with, for each corner, the tile index lonlat_to_tile gives at zoom
\* 22: int((lon + 180) / 360 * 2^22) and the Mercator row. At zoom z the
\* index is the zoom-22 index shifted right by 22 - z (floor of a floor).
\* e6: the corners in micro-degrees, as the cache key formats them.
BangaloreBBox ==
  [e6 |-> <<77623400, 12903700, 77662500, 12924700>>,
   xMinLon |-> 3001530, xMaxLon |-> 3001985,
   yMinLat |-> 1945525, yMaxLat |-> 1945274]

\* Other bboxes a caller of get_live_chokepoints can pass: one inside the
\* zoom-13 tile (7439, 4167); one of 12 tiles at zoom 13 and 48 at zoom 14;
\* one of 20 tiles at zoom 12 and 6 at zoom 11.
SingleTileBBox ==
  [e6 |-> <<146911969, -3152557, 146946301, -3126847>>,
   xMinLon |-> 3808800, xMaxLon |-> 3809200,
   yMinLat |-> 2133900, yMaxLat |-> 2133600]

MidBBox ==
  [e6 |-> <<77520432, 12855611, 77694669, 12982771>>,
   xMinLon |-> 3000330, xMaxLon |-> 3002360,
   yMinLat |-> 1946100, yMaxLat |-> 1944580]

WideBBox ==
  [e6 |-> <<77432027, 12726712, 77869763, 13068066>>,
   xMinLon |-> 2999300, xMaxLon |-> 3004400,
   yMinLat |-> 1947640, yMaxLat |-> 1943560]

TileAt(idx22, z) == idx22 \div Pow2(22 - z)

RECURSIVE Range(_, _)
Range(a, b) == IF a > b THEN <<>> ELSE <<a>> \o Range(a + 1, b)

\* _tiles_for_bbox(min_lon, min_lat, max_lon, max_lat, z): x-major, y inner.
TilesForBbox(bbox, z) ==
  LET minX == TileAt(bbox.xMinLon, z)  maxX == TileAt(bbox.xMaxLon, z)
      maxY == TileAt(bbox.yMinLat, z)  minY == TileAt(bbox.yMaxLat, z)
      xs == Range(Min2(minX, maxX), Max2(minX, maxX))
      ys == Range(Min2(minY, maxY), Max2(minY, maxY))
  IN Flatten([i \in 1..Len(xs) |-> [j \in 1..Len(ys) |-> <<xs[i], ys[j]>>]])

\* len(_tiles_for_bbox(...)): the columns times the rows.
TileCount(bbox, z) ==
  (Abs(TileAt(bbox.xMaxLon, z) - TileAt(bbox.xMinLon, z)) + 1)
    * (Abs(TileAt(bbox.yMinLat, z) - TileAt(bbox.yMaxLat, z)) + 1)

\* "if z < 12: z = 12"
FloorZoom(z) == Max2(z, MinZoom)

\* get_live_chokepoints, step 1: the zoom of the first tile fetch. Over
\* MAX_TILES tiles the zoom is lowered once, z_reduced = max(0, z - 1).
LiveZoom(bbox, z) ==
  IF TileCount(bbox, FloorZoom(z)) > MaxTilesLive
  THEN Max2(0, FloorZoom(z) - 1) ELSE FloorZoom(z)

\* vector_probe: over 32 tiles the zoom is lowered once, z = max(12, z - 1).
ProbeZoom(bbox, z) ==
  IF TileCount(bbox, FloorZoom(z)) > MaxTilesProbe
  THEN Max2(MinZoom, FloorZoom(z) - 1) ELSE FloorZoom(z)

\* ------------------------------------------------------------- projection
\* Width of one tile in metres at zoom z around the deployment bbox
\* (40075 km * cos(12.9 deg) / 2^z): 4768 m at zoom 13.
TileMeters(z) == IF z >= 13 THEN 4768 \div Pow2(z - 13) ELSE 4768 * Pow2(13 - z)

\* tile_point_to_lonlat: tile-local (tx, ty) of tile (x, y) at zoom z to a
\* position. u = (x + tx/extent) / n grows eastwards, v = (y + ty/extent) / n
\* grows southwards; the position is taken relative to tile (ox, oy).
TilePointToLonLatFrom(ox, oy, x, y, z, tx, ty, extent) ==
  [lon |-> (x - ox) * TileMeters(z) + (tx * TileMeters(z)) \div extent,
   lat |-> 0 - ((y - oy) * TileMeters(z) + (ty * TileMeters(z)) \div extent)]

\* sqrt(dlat^2 + dlon^2) <= r (the bounds on dlat, dlon keep the squares small)
Within(dlat, dlon, r) ==
  Abs(dlat) <= r /\ Abs(dlon) <= r /\ dlat * dlat + dlon * dlon <= r * r

\* haversine_m(lat1, lon1, lat2, lon2) <= r
HaversineWithin(lat1, lon1, lat2, lon2, r) == Within(lat1 - lat2, lon1 - lon2, r)

\* -------------------------------------------------------------- extractor
\* A property value: t = "num" (n = value * 100), "str" (s) or "other".
NumV(n) == [t |-> "num", n |-> n, s |-> ""]
StrV(s) == [t |-> "str", n |-> 0, s |-> s]
OtherV == [t |-> "other", n |-> 0, s |-> ""]

IsNum(v) == v.t = "num"

\* Keys k with "jam" in k.lower() or k.lower() in ("jf", "jam_factor").
JamKeys == {"jam_factor", "jamFactor", "JF", "traffic_jam"}
CurKeys == {"current_speed", "currentSpeed", "cs", "CS"}
FreeKeys == {"freeFlowSpeed", "free_flow_speed", "ffs"}

\* mapping.get(lvl.strip().lower()): jam * 100, or -1 for a label not mapped.
LevelLabel(s) ==
  CASE s \in {"free", "Free "} -> 0
    [] s \in {"low", "light"} -> 200
    [] s \in {"moderate", "medium"} -> 500
    [] s \in {"high", "heavy", " HEAVY"} -> 800
    [] s = "severe" -> 900
    [] s = "critical" -> 1000
    [] OTHER -> -1

NoJam == [some |-> FALSE, jam |-> 0]
SomeJam(j) == [some |-> TRUE, jam |-> j]

\* First numeric property with a jam-like key, in the dict's order.
RECURSIVE JamFromKeys(_)
JamFromKeys(props) ==
  IF props = <<>> THEN NoJam
  ELSE IF IsNum(Head(props).v) /\ Head(props).k \in JamKeys
       THEN SomeJam(Head(props).v.n)
       ELSE JamFromKeys(Tail(props))

HasKey(props, k) == \E i \in 1..Len(props) : props[i].k = k
\* props.get(k): a dict holds one value per key.
GetProp(props, k) == props[CHOOSE i \in 1..Len(props) : props[i].k = k].v

JamFromLevel(props) ==
  IF ~HasKey(props, "traffic_level") THEN NoJam
  ELSE LET lvl == GetProp(props, "traffic_level") IN
       IF IsNum(lvl)
       THEN IF 0 <= lvl.n /\ lvl.n <= 100 THEN SomeJam(lvl.n * 10)
            ELSE IF 0 <= lvl.n /\ lvl.n <= 500 THEN SomeJam(lvl.n * 2)
            ELSE SomeJam(lvl.n)
       ELSE IF lvl.t = "str" /\ LevelLabel(lvl.s) >= 0
            THEN SomeJam(LevelLabel(lvl.s))
            ELSE NoJam

\* The last numeric value under one of the keys, or NoJam.
RECURSIVE LastNum(_, _, _)
LastNum(props, keys, acc) ==
  IF props = <<>> THEN acc
  ELSE LastNum(Tail(props), keys,
               IF Head(props).k \in keys /\ IsNum(Head(props).v)
               THEN SomeJam(Head(props).v.n) ELSE acc)

JamFromSpeeds(props) ==
  LET cur == LastNum(props, CurKeys, NoJam)
      free == LastNum(props, FreeKeys, NoJam)
  IN IF cur.some /\ free.some /\ free.jam > 0
     THEN SomeJam(1000 - Clamp((1000 * cur.jam) \div free.jam, 0, 1000))
     ELSE NoJam

ResolveJam(props) ==
  IF JamFromKeys(props).some THEN JamFromKeys(props)
  ELSE IF JamFromLevel(props).some THEN JamFromLevel(props)
  ELSE JamFromSpeeds(props)

\* Geometry: shape "LineString" (coords a sequence of <<tx, ty>>),
\* "MultiLineString" (a sequence of such lines), "Point" (coords <<tx, ty>>)
\* or "Empty" (no coordinates). The representative point, when the code
\* finds one: coords[0][0] of a Point raises, and the feature is skipped.
RepLine(geom) ==
  IF geom.shape = "MultiLineString" THEN geom.coords[1] ELSE geom.coords

HasRepPoint(geom) ==
  /\ geom.shape \in {"LineString", "MultiLineString"}
  /\ geom.coords # <<>>
  /\ RepLine(geom) # <<>>

RepPoint(geom) == RepLine(geom)[Len(RepLine(geom)) \div 2 + 1]

SeverityOfJam(jam) == Clamp(jam, 0, 1000)

SamplePoint(lat, lon, severity, weight) ==
  [lat |-> lat, lon |-> lon, severity |-> severity, weight |-> weight]

\* The extractor without its threshold test.
FeatureEmitsAny(feat, jfMin) ==
  /\ ResolveJam(feat.props).some
  /\ HasRepPoint(feat.geom)

\* Whether the feature passes "jam is None" / "jam < jf_min" / geometry.
FeatureEmits(feat, jfMin) ==
  /\ ResolveJam(feat.props).some
  /\ ~(ResolveJam(feat.props).jam < jfMin)
  /\ HasRepPoint(feat.geom)

FeatureSample(feat, ox, oy) ==
  LET jam == ResolveJam(feat.props).jam
      pt == RepPoint(feat.geom)
      ll == TilePointToLonLatFrom(ox, oy, feat.x, feat.y, feat.z,
                                  pt[1], pt[2], feat.extent)
      severity == SeverityOfJam(jam)
  IN SamplePoint(ll.lat, ll.lon, severity, severity * WDen)

\* _build_samples_from_features(features, jf_min)
RECURSIVE BuildSamplesFromFeaturesAt(_, _, _, _)
BuildSamplesFromFeaturesAt(features, jfMin, ox, oy) ==
  IF features = <<>> THEN <<>>
  ELSE (IF FeatureEmits(Head(features), jfMin)
        THEN <<FeatureSample(Head(features), ox, oy)>> ELSE <<>>)
       \o BuildSamplesFromFeaturesAt(Tail(features), jfMin, ox, oy)

\* ------------------------------------------------------------- grid probe
\* One flowSegmentData response: status "ok" (HTTP 200 with a JSON body),
\* "http_error" (another status) or "exception" (transport error, timeout,
\* body that is not JSON); cur, free, conf are property values, conf.t =
\* "missing" when the body has no confidence (the code defaults it to 0.8).
MissingV == [t |-> "missing", n |-> 0, s |-> ""]

ProbeConf(resp) == IF resp.conf.t = "missing" THEN 80 ELSE resp.conf.n

ProbeSeverity(resp) ==
  1000 - Clamp((1000 * resp.cur.n) \div resp.free.n, 0, 1000)

\* probe() returns a SamplePoint (float(conf) of a non-number raises).
ProbeEmits(resp) ==
  /\ resp.status = "ok"
  /\ IsNum(resp.cur) /\ IsNum(resp.free) /\ resp.free.n > 0
  /\ ~(ProbeSeverity(resp) <= 0)
  /\ resp.conf.t \in {"num", "missing"}

ProbeSample(lat, lon, resp) ==
  SamplePoint(lat, lon, ProbeSeverity(resp),
              (ProbeSeverity(resp) * ProbeConf(resp) * WDen) \div 100)

\* _collect_flow_segment_samples: one response per grid point, in grid order;
\* without a credential no probe is issued.
RECURSIVE ProbeResults(_, _)
ProbeResults(points, resps) ==
  IF points = <<>> THEN <<>>
  ELSE (IF ProbeEmits(Head(resps))
        THEN <<ProbeSample(Head(points).lat, Head(points).lon, Head(resps))>>
        ELSE <<>>)
       \o ProbeResults(Tail(points), Tail(resps))

CollectFlowSegmentSamples(apiKey, points, resps) ==
  IF ~apiKey THEN <<>> ELSE ProbeResults(points, resps)

\* ---------------------------------------------------------------- incidents
\* An incident: id ("" when the upstream gives none), geometry shape
\* "Point" (pts = <<p>>), "LineString" (pts = its vertices) or "None" (no
\* usable coordinates), p = [lon, lat]; closed = properties.roadClosed.
Incident(id, shape, pts, closed) ==
  [id |-> id, shape |-> shape, pts |-> pts, closed |-> closed]

\* iter_incident_points_with_flags: the first point of each incident that has
\* coordinates, as [lon, lat, closed]; iter_incident_points yields the same
\* points without the flag.
RECURSIVE IterIncidentPoints(_)
IterIncidentPoints(incidents) ==
  IF incidents = <<>> THEN <<>>
  ELSE LET inc == Head(incidents) IN
       (IF inc.shape \in {"Point", "LineString"} /\ inc.pts # <<>>
        THEN <<[lon |-> inc.pts[1].lon, lat |-> inc.pts[1].lat,
                closed |-> inc.closed]>>
        ELSE <<>>)
       \o IterIncidentPoints(Tail(incidents))

\* --------------------------------------------------------- incident boost
\* s.weight *= 1.5 once for every incident point within radius_m of s.
RECURSIVE BoostWeight(_, _, _, _)
BoostWeight(s, w, pts, radiusM) ==
  IF pts = <<>> THEN w
  ELSE BoostWeight(s,
                   IF HaversineWithin(s.lat, s.lon, Head(pts).lat, Head(pts).lon, radiusM)
                   THEN (w * 3) \div 2 ELSE w,
                   Tail(pts), radiusM)

\* A boost that leaves every weight as it was.
BoostSamplesNever(samples, incidents, radiusM) == samples

\* _boost_samples_with_incidents(samples, incidents, radius_m)
BoostSamplesWithIncidents(samples, incidents, radiusM) ==
  [i \in 1..Len(samples) |->
     [samples[i] EXCEPT !.weight =
        BoostWeight(samples[i], samples[i].weight,
                    IterIncidentPoints(incidents), radiusM)]]

\* ---------------------------------------------------------------- clusterer
\* weights = max(1e-6, s.weight): a positive weight is kept; a weight <= 0
\* becomes 1e-6, which is below one weight unit even summed over a whole
\* request, so it never decides the comparison with the integer min_samples.
ClusterWeight(s) == IF s.weight > 0 THEN s.weight ELSE 0

\* Indices within eps_m of sample i (the sample itself included).
Neighbors(samples, i, epsM) ==
  {j \in 1..Len(samples) :
     HaversineWithin(samples[i].lat, samples[i].lon,
                     samples[j].lat, samples[j].lon, epsM)}

RECURSIVE SumWeights(_, _)
SumWeights(samples, idx) ==
  IF idx = {} THEN 0
  ELSE LET j == CHOOSE k \in idx : TRUE
       IN ClusterWeight(samples[j]) + SumWeights(samples, idx \ {j})

\* A clusterer for which every sample is a core sample: the variant C6 has
\* to tell from IsCore.
IsCoreAlways(samples, i, epsM, minSamples) == TRUE

\* DBSCAN's core sample: the weights within eps sum to min_samples or more.
IsCore(samples, i, epsM, minSamples) ==
  SumWeights(samples, Neighbors(samples, i, epsM)) >= minSamples * 1000 * WDen

\* The unlabelled samples the depth-first expansion from set S reaches:
\* every unlabelled neighbour of a core sample of S joins S.
RECURSIVE Expand(_, _, _, _, _)
Expand(samples, S, free, epsM, minSamples) ==
  LET more == {j \in free \ S :
                 \E c \in S : /\ IsCore(samples, c, epsM, minSamples)
                              /\ j \in Neighbors(samples, c, epsM)}
  IN IF more = {} THEN S
     ELSE Expand(samples, S \cup more, free, epsM, minSamples)

\* dbscan_inner: scan the samples in order; an unlabelled core sample seeds
\* the next label. labels[i] = -1 is noise.
RECURSIVE DbscanFrom(_, _, _, _, _, _)
DbscanFrom(samples, i, labels, next, epsM, minSamples) ==
  IF i > Len(samples) THEN labels
  ELSE IF labels[i] # -1 \/ ~IsCore(samples, i, epsM, minSamples)
       THEN DbscanFrom(samples, i + 1, labels, next, epsM, minSamples)
       ELSE LET free == {j \in 1..Len(samples) : labels[j] = -1}
                grp == Expand(samples, {i}, free, epsM, minSamples)
            IN DbscanFrom(samples, i + 1,
                          [j \in 1..Len(samples) |->
                             IF j \in grp THEN next ELSE labels[j]],
                          next + 1, epsM, minSamples)

DbscanLabels(samples, epsM, minSamples) ==
  DbscanFrom(samples, 1, [j \in 1..Len(samples) |-> -1], 0, epsM, minSamples)

\* The labels in the order a dict first sees them: zip(labels, samples).
RECURSIVE LabelOrder(_, _, _)
LabelOrder(labels, i, seen) ==
  IF i > Len(labels) THEN <<>>
  ELSE IF labels[i] = -1 \/ labels[i] \in seen
       THEN LabelOrder(labels, i + 1, seen)
       ELSE <<labels[i]>> \o LabelOrder(labels, i + 1, seen \cup {labels[i]})

\* _cluster_samples(samples, eps_m, min_samples): list(clusters.values())
ClusterSamples(samples, epsM, minSamples) ==
  IF samples = <<>> THEN <<>>
  ELSE LET labels == DbscanLabels(samples, epsM, minSamples)
           order == LabelOrder(labels, 1, {})
       IN [k \in 1..Len(order) |->
             SelectFrom(samples, [i \in 1..Len(samples) |-> labels[i] = order[k]], 1)]

\* --------------------------------------------------------------- aggregator
\* total_w = sum(w): the cluster's weight.
TotalWeight(cl) == SumSeq([i \in 1..Len(cl) |-> cl[i].weight])

\* sorted(values): ascending insertion sort.
RECURSIVE InsertAsc(_, _)
InsertAsc(v, s) ==
  IF s = <<>> THEN <<v>>
  ELSE IF v < Head(s) THEN <<v>> \o s ELSE <<Head(s)>> \o InsertAsc(v, Tail(s))

RECURSIVE SortedAsc(_)
SortedAsc(s) == IF s = <<>> THEN <<>> ELSE InsertAsc(Head(s), SortedAsc(Tail(s)))

\* sev_values[int(0.9 * (n - 1))] of the ascending severities (n = 1: the value).
P90(cl) ==
  LET sev == SortedAsc([i \in 1..Len(cl) |-> cl[i].severity])
  IN IF Len(sev) > 1 THEN sev[(9 * (Len(sev) - 1)) \div 10 + 1] ELSE sev[1]

\* Weighted mean of a coordinate, in decimetres: sum(c * w) / total_w, taken
\* relative to the first member to keep the products small.
WeightedMeanDm(cl, coord, totalW) ==
  10 * cl[1][coord]
    + RoundDiv(10 * SumSeq([i \in 1..Len(cl) |->
                              (cl[i][coord] - cl[1][coord]) * cl[i].weight]),
               totalW)

\* Incident points with haversine_m(centre, point) <= radius.
NearCenter(latDm, lonDm, pts, radiusM) ==
  {k \in 1..Len(pts) :
     Within(latDm - 10 * pts[k].lat, lonDm - 10 * pts[k].lon, 10 * radiusM)}

\* One entry of results: cluster cl at enumerate index idx (from 0). The
\* centre is in decimetres (the float centre to 0.1 m); score is
\* round(100 * (0.6 * sev_mean + 0.3 * p90 + 0.1 * bonus), 1), kept * 10.
ClusterEntry(cl, idx, incidents, radiusM, roadName) ==
  LET totalW == TotalWeight(cl)
      latDm == WeightedMeanDm(cl, "lat", totalW)
      lonDm == WeightedMeanDm(cl, "lon", totalW)
      sevN == SumSeq([i \in 1..Len(cl) |-> cl[i].severity * cl[i].weight])
      p90 == P90(cl)
      pts == IterIncidentPoints(incidents)
      near == NearCenter(latDm, lonDm, pts, radiusM)
      incidentCount == Cardinality(near)
      closure == \E k \in near : pts[k].closed
      bonus10 == IF closure \/ incidentCount > 0 THEN 10 ELSE 0
  IN [id |-> idx,
      center |-> [lat |-> latDm, lon |-> lonDm],
      score |-> RoundDiv(6 * sevN + 3 * p90 * totalW, 10 * totalW) + bonus10,
      severity_mean |-> RoundDiv(sevN, totalW),
      severity_peak |-> p90,
      incident_count |-> incidentCount,
      closure |-> closure,
      support |-> RoundDiv(totalW, 10 * WDen),
      count |-> Len(cl),
      road_name |-> roadName]

\* The cluster is skipped: "if not cl" or "if total_w <= 0".
ClusterSkipped(cl) == cl = <<>> \/ TotalWeight(cl) <= 0

RECURSIVE ClusterEntries(_, _, _, _, _)
ClusterEntries(clusters, idx, incidents, radiusM, names) ==
  IF idx > Len(clusters) THEN <<>>
  ELSE (IF ClusterSkipped(clusters[idx]) THEN <<>>
        ELSE <<ClusterEntry(clusters[idx], idx - 1, incidents, radiusM, names[idx])>>)
       \o ClusterEntries(clusters, idx + 1, incidents, radiusM, names)

\* results.sort(key=score, reverse=True): stable, equal scores keep their order.
RECURSIVE InsertByScore(_, _)
InsertByScore(r, s) ==
  IF s = <<>> THEN <<r>>
  ELSE IF r.score > Head(s).score THEN <<r>> \o s
       ELSE <<Head(s)>> \o InsertByScore(r, Tail(s))

\* Results left in the order the clusters were met: the variant C9 has to
\* tell from SortByScoreDesc.
KeepOrder(rs) == rs

RECURSIVE SortByScoreDesc(_)
SortByScoreDesc(rs) ==
  IF rs = <<>> THEN <<>>
  ELSE InsertByScore(rs[Len(rs)], SortByScoreDesc(SubSeq(rs, 1, Len(rs) - 1)))

\* _aggregate_and_score(clusters, include_geocode, incidents, radius): names[i]
\* is what the reverse geocoder gave for cluster i ("null": no name, or
\* include_geocode is off).
AggregateAndScore(clusters, incidents, radiusM, names) ==
  [clusters |-> SortByScoreDesc(ClusterEntries(clusters, 1, incidents, radiusM, names))]

NoNames(clusters) == [i \in 1..Len(clusters) |-> "null"]

\* ======================================================= extractor machine
\* The extractor and the grid probe as pure functions of bounded inputs.
VARIABLES exPc, exFeatures, exJfMin, exResps, exSamples

exVars == <<exPc, exFeatures, exJfMin, exResps, exSamples>>

Line2 == [shape |-> "LineString", coords |-> <<<<1024, 1024>>, <<3072, 3072>>>>]
Line3 == [shape |-> "LineString",
          coords |-> <<<<0, 0>>, <<2048, 1024>>, <<4096, 2048>>>>]
Multi2 == [shape |-> "MultiLineString",
           coords |-> <<<<<<512, 512>>, <<1536, 512>>>>, <<<<9, 9>>>>>>]
Point1 == [shape |-> "Point", coords |-> <<2048, 2048>>]
EmptyGeom == [shape |-> "Empty", coords |-> <<>>]

Prop(k, v) == [k |-> k, v |-> v]

ExPropSets ==
  { <<Prop("jam_factor", NumV(800))>>,
    <<Prop("jam_factor", NumV(0))>>,
    <<Prop("JF", NumV(-50))>>,
    <<Prop("jamFactor", NumV(1200))>>,
    <<Prop("jam_factor", StrV("8")), Prop("traffic_level", StrV(" HEAVY"))>>,
    <<Prop("traffic_level", StrV("free"))>>,
    <<Prop("traffic_level", StrV("unknown"))>>,
    <<Prop("traffic_level", NumV(300))>>,
    <<Prop("traffic_level", NumV(50))>>,
    <<Prop("traffic_level", NumV(-100))>>,
    <<Prop("currentSpeed", NumV(2000)), Prop("freeFlowSpeed", NumV(5000))>>,
    <<Prop("cs", NumV(6000)), Prop("ffs", NumV(5000))>>,
    <<Prop("currentSpeed", NumV(2000)), Prop("freeFlowSpeed", NumV(0))>>,
    <<Prop("road_type", StrV("major"))>> }

ExGeoms == {Line2, Line3, Multi2, Point1, EmptyGeom}

ExFeature(props, geom) ==
  [layer |-> "Traffic flow", props |-> props, geom |-> geom,
   extent |-> 4096, x |-> 0, y |-> 0, z |-> 13]

ExFeatureSet == {ExFeature(p, g) : p \in ExPropSets, g \in {Line2, Point1}}
                \cup {ExFeature(<<Prop("jam_factor", NumV(800))>>, g) : g \in ExGeoms}

\* jf_min values the interface accepts, 0.0 to 10.0 (value * 100).
ExJfMins == {0, 50, 200, 400, 1000}

ExProbeResps ==
  { [status |-> "ok", cur |-> NumV(20), free |-> NumV(50), conf |-> NumV(100)],
    [status |-> "ok", cur |-> NumV(20), free |-> NumV(50), conf |-> MissingV],
    [status |-> "ok", cur |-> NumV(20), free |-> NumV(50), conf |-> NumV(0)],
    [status |-> "ok", cur |-> NumV(60), free |-> NumV(50), conf |-> NumV(90)],
    [status |-> "ok", cur |-> NumV(-10), free |-> NumV(50), conf |-> NumV(50)],
    [status |-> "ok", cur |-> NumV(20), free |-> NumV(0), conf |-> NumV(90)],
    [status |-> "ok", cur |-> OtherV, free |-> NumV(50), conf |-> NumV(90)],
    [status |-> "ok", cur |-> NumV(20), free |-> NumV(50), conf |-> OtherV],
    [status |-> "http_error", cur |-> OtherV, free |-> OtherV, conf |-> MissingV],
    [status |-> "exception", cur |-> OtherV, free |-> OtherV, conf |-> MissingV] }

SeqsUpTo(S, n) == UNION {[1..k -> S] : k \in 0..n}

ExGridPoints == [i \in 1..MaxProbes |-> [lat |-> 100 * i, lon |-> 0]]

ExInit ==
  /\ exPc = "input"
  /\ exFeatures \in SeqsUpTo(ExFeatureSet, MaxFeatures)
  /\ exJfMin \in ExJfMins
  /\ exResps = <<>>
  /\ exSamples = <<>>

\* samples = self._build_samples_from_features(features, jf_min=jf_min)
ExExtract ==
  /\ exPc = "input"
  /\ exSamples' = BuildSamplesFromFeaturesAt(exFeatures, exJfMin, 0, 0)
  /\ exPc' = "extracted"
  /\ UNCHANGED <<exFeatures, exJfMin, exResps>>

\* grid_samples = await self._collect_flow_segment_samples(bbox, 80)
ExProbe ==
  /\ exPc = "input"
  /\ exFeatures = <<>>
  /\ exJfMin = 0
  /\ \E resps \in [1..MaxProbes -> ExProbeResps] :
       /\ exResps' = resps
       /\ exSamples' = CollectFlowSegmentSamples(TRUE, ExGridPoints, resps)
  /\ exPc' = "probed"
  /\ UNCHANGED <<exFeatures, exJfMin>>

ExIdle == exPc = "idle" /\ exFeatures = <<>> /\ exJfMin = 0
          /\ exResps = <<>> /\ exSamples = <<>>

\* =========================================================== stage machine
\* Steps 4 to 6 of get_live_chokepoints on bounded samples and incidents:
\* incident boost, clustering, aggregation.
VARIABLES stPc, stInput, stSamples, stIncidents, stMinSamples, stEpsM,
          stRadius, stClusters, stResult

stVars == <<stPc, stInput, stSamples, stIncidents, stMinSamples, stEpsM,
            stRadius, stClusters, stResult>>

\* A sample as the extractor emits it (weight = severity) or, with conf < 100,
\* as the grid probe does (weight = severity * confidence).
StSample(lat, severity, conf) ==
  SamplePoint(lat, 0, severity, (severity * conf * WDen) \div 100)

StSampleSet ==
  { StSample(0, 1000, 100), StSample(100, 500, 100), StSample(400, 1000, 100),
    StSample(400, 500, 100), StSample(0, 0, 100), StSample(100, 600, 50),
    StSample(0, 500, 100) }

StIncidentSet ==
  { Incident("a", "Point", <<[lon |-> 0, lat |-> 0]>>, TRUE),
    Incident("b", "LineString",
             <<[lon |-> 0, lat |-> 400], [lon |-> 0, lat |-> 900]>>, FALSE) }

StInit ==
  /\ stPc = "samples"
  /\ stInput \in SeqsUpTo(StSampleSet, MaxSamples)
  /\ stSamples = stInput
  /\ stIncidents \in SeqsUpTo(StIncidentSet, MaxIncidents)
  /\ stMinSamples \in {1, 2}
  /\ stEpsM = 150
  /\ stRadius \in {100, 150}
  /\ stClusters = <<>>
  /\ stResult = [clusters |-> <<>>]

\* if incidents: self._boost_samples_with_incidents(samples, incidents, r)
StBoost ==
  /\ stPc = "samples"
  /\ stSamples' = IF stIncidents # <<>> /\ stSamples # <<>>
                   THEN BoostSamplesWithIncidents(stSamples, stIncidents, stRadius)
                   ELSE stSamples
  /\ stPc' = "boosted"
  /\ UNCHANGED <<stInput, stIncidents, stMinSamples, stEpsM, stRadius,
                  stClusters, stResult>>

\* clusters = self._cluster_samples(samples, eps_m, min_samples)
StCluster ==
  /\ stPc = "boosted"
  /\ stClusters' = ClusterSamples(stSamples, stEpsM, stMinSamples)
  /\ stPc' = "clustered"
  /\ UNCHANGED <<stInput, stSamples, stIncidents, stMinSamples, stEpsM,
                  stRadius, stResult>>

\* result = await self._aggregate_and_score(clusters, ..., max(r, 150))
StAggregate ==
  /\ stPc = "clustered"
  /\ stResult' = AggregateAndScore(stClusters, stIncidents,
                                    Max2(stRadius, MinIncidentCountRadius),
                                    NoNames(stClusters))
  /\ stPc' = "done"
  /\ UNCHANGED <<stInput, stSamples, stIncidents, stMinSamples, stEpsM,
                  stRadius, stClusters>>

StIdle == /\ stPc = "idle" /\ stInput = <<>> /\ stSamples = <<>>
          /\ stIncidents = <<>> /\ stMinSamples = 0 /\ stEpsM = 0
          /\ stRadius = 0 /\ stClusters = <<>>
          /\ stResult = [clusters |-> <<>>]

\* ============================================================ environment
\* What the machines below share: the clock, the process-wide Cache object
\* (get_cache() is a singleton) and the settings (get_settings() is cached).
VARIABLES now, cache, settings

envVars == <<now, cache, settings>>

EnvIdle == now = 0 /\ cache = NewCache(FALSE)
           /\ settings = [traffic |-> "", maps |-> ""]

\* ====================================================== tile batch machine
\* One call of _fetch_decode_tiles_with_style(tiles, z, style): a task per
\* tile, started in list order by asyncio.gather, a Semaphore(8) of the
\* call's own, the per-tile cache, then the join and the feature list.
\* tbFailed[i]: the request of task i ended with a status other than 200 or
\* with an exception; tbKinds: the kinds of failure the batch has seen;
\* tbFetchedAt[i]: when tile i was last fetched and decoded (-1: never).
VARIABLES tbPc, tbStyle, tbZ, tbTiles, tbWorld, tbNext, tbTask, tbOut, tbSem,
          tbFeatures, tbRound, tbFailed, tbKinds, tbFetchedAt

tbVars == <<tbPc, tbStyle, tbZ, tbTiles, tbWorld, tbNext, tbTask, tbOut, tbSem,
            tbFeatures, tbRound, tbFailed, tbKinds, tbFetchedAt>>

Decoded(x, y, z, layers) == [x |-> x, y |-> y, z |-> z, layers |-> layers]

\* fetch_tile returned None.
NoTile == Decoded(-1, -1, -1, <<>>)

TileKey(style, z, xy) == <<"mvt", style, z, xy[1], xy[2]>>

FlowFeature(jam, geom) == [props |-> <<Prop("jam_factor", NumV(jam))>>, geom |-> geom]

\* What the upstream holds for a tile, by world: the decoded layers.
WorldLayers(world, x, y) ==
  CASE world = "dense" ->
         << [name |-> "Traffic flow", extent |-> 4096,
             features |-> IF (x + y) % 2 = 0
                          THEN <<FlowFeature(500, Line2)>>
                          ELSE <<FlowFeature(800, Line3), FlowFeature(200, Multi2)>>] >>
    [] world = "sparse" ->
         << [name |-> "Traffic flow", extent |-> 0,
             features |-> IF (x + y) % 3 = 0 THEN <<FlowFeature(500, Line2)>> ELSE <<>>] >>
    [] world = "jammed" ->
         << [name |-> "Traffic flow", extent |-> 4096,
             features |-> <<FlowFeature(1000, Line2), FlowFeature(300, Line3)>>] >>
    [] world = "low" ->
         << [name |-> "Traffic flow", extent |-> 4096,
             features |-> <<FlowFeature(100, Line2)>>] >>
    [] world = "single" ->
         << [name |-> "Traffic flow", extent |-> 4096,
             features |-> IF <<x, y>> = <<7439, 4167>>
                          THEN <<FlowFeature(800, Line2)>> ELSE <<>>] >>
    [] world = "fine" ->
         << [name |-> "Traffic flow", extent |-> 4096,
             features |-> IF <<x, y>> = <<11725, 7598>>
                          THEN <<FlowFeature(800, Line2)>> ELSE <<>>] >>
    [] OTHER -> <<>>

\* The features of one decoded tile, layer by layer; extent = layer.get("extent") or 4096.
LayerFeatures(d, layer) ==
  [k \in 1..Len(layer.features) |->
     [layer |-> layer.name, props |-> layer.features[k].props,
      geom |-> layer.features[k].geom,
      extent |-> IF layer.extent = 0 THEN 4096 ELSE layer.extent,
      x |-> d.x, y |-> d.y, z |-> d.z]]

DecodedFeatures(d) ==
  Flatten([l \in 1..Len(d.layers) |-> LayerFeatures(d, d.layers[l])])

\* decoded_tiles = [d for d in gather(...) if d], then the feature loop.
BatchFeatures(outs) ==
  Flatten([i \in 1..Len(outs) |->
             IF outs[i] = NoTile THEN <<>> ELSE DecodedFeatures(outs[i])])

\* A semaphore that never makes a task wait (no bound on the requests in
\* flight): the variant C5 has to tell from SemFree.
SemFreeAlways(sem) == TRUE

\* "async with sem" enters without waiting when the semaphore has a permit.
SemFree(sem) == sem > 0

\* A fetch_tile that hands on whatever body it got, whatever the status or
\* the exception: the variant C4 has to tell from FetchTileResult.
FetchTileKeepBody(outcome, decoded) == [raised |-> FALSE, out |-> decoded]

\* What fetch_tile does with the response: the enriched tile on 200 and a
\* decodable body; None on another status ("return None") and on any
\* exception ("except Exception: return None"). raised: the exception
\* leaves fetch_tile and, through gather, the batch.
FetchTileResult(outcome, decoded) ==
  [raised |-> FALSE, out |-> IF outcome = "ok" THEN decoded ELSE NoTile]

TbInFlight == {i \in 1..Len(tbTiles) : tbTask[i] = "inflight"}

TbBegin(tiles) ==
  /\ tbNext' = 1
  /\ tbTask' = [i \in 1..Len(tiles) |-> "new"]
  /\ tbOut' = [i \in 1..Len(tiles) |-> NoTile]
  /\ tbSem' = SemLimit
  /\ tbFeatures' = <<>>
  /\ tbFailed' = [i \in 1..Len(tiles) |-> FALSE]
  /\ tbKinds' = {}

TbInit ==
  /\ now = 0
  /\ tbStyle = "relative"
  /\ \/ /\ tbZ = 15
        /\ tbTiles = SubSeq(TilesForBbox(BangaloreBBox, 15), 1, NumTiles)
        /\ settings = [traffic |-> "'KEY'", maps |-> ""]
        /\ tbWorld = "dense"
        /\ cache = NewCache(FALSE)
     \/ /\ tbZ = 13
        /\ tbTiles = TilesForBbox(BangaloreBBox, 13)
        /\ settings \in {[traffic |-> "'KEY'", maps |-> ""], [traffic |-> " '' ", maps |-> ""]}
        /\ tbWorld \in {"dense", "sparse"}
        /\ cache \in {NewCache(FALSE), NewCache(TRUE)}
  /\ tbPc = "run"
  /\ tbNext = 1
  /\ tbTask = [i \in 1..Len(tbTiles) |-> "new"]
  /\ tbOut = [i \in 1..Len(tbTiles) |-> NoTile]
  /\ tbSem = SemLimit
  /\ tbFeatures = <<>>
  /\ tbRound = 1
  /\ tbFailed = [i \in 1..Len(tbTiles) |-> FALSE]
  /\ tbKinds = {}
  /\ tbFetchedAt = [i \in 1..Len(tbTiles) |-> -1]

\* if not api_key: return []
TbNoKey ==
  /\ tbPc = "run"
  /\ ~HasApiKey(settings)
  /\ tbPc' = "joined"
  /\ tbFeatures' = <<>>
  /\ UNCHANGED <<tbStyle, tbZ, tbTiles, tbWorld, tbNext, tbTask, tbOut, tbSem,
                  tbRound, tbFailed, tbKinds, tbFetchedAt, envVars>>

\* A task runs to its first suspension: the cache lookup, and on a miss the
\* semaphore, which it takes at once when a permit is free.
TbStart ==
  /\ tbPc = "run"
  /\ HasApiKey(settings)
  /\ tbNext <= Len(tbTiles)
  /\ LET i == tbNext
         k == TileKey(tbStyle, tbZ, tbTiles[i])
     IN \E redisOk \in RedisOutcomes(cache) :
          LET got == CacheGet(cache, k, now, redisOk) IN
          /\ cache' = CacheAfterGet(cache, k, now, redisOk)
          /\ IF got.hit
             THEN /\ tbTask' = [tbTask EXCEPT ![i] = "done"]
                  /\ tbOut' = [tbOut EXCEPT ![i] = got.v]
                  /\ tbSem' = tbSem
             ELSE /\ tbOut' = tbOut
                  /\ IF SemFree(tbSem)
                     THEN tbTask' = [tbTask EXCEPT ![i] = "inflight"] /\ tbSem' = tbSem - 1
                     ELSE tbTask' = [tbTask EXCEPT ![i] = "waiting"] /\ tbSem' = tbSem
  /\ tbNext' = tbNext + 1
  /\ UNCHANGED <<tbPc, tbStyle, tbZ, tbTiles, tbWorld, tbFeatures, tbRound,
                  tbFailed, tbKinds, tbFetchedAt, now, settings>>

\* async with sem: the longest-waiting task gets the permit another task
\* released (asyncio.Semaphore wakes its waiters in order).
TbAcquire(i) ==
  /\ tbPc = "run"
  /\ tbTask[i] = "waiting"
  /\ \A j \in 1..(i - 1) : tbTask[j] # "waiting"
  /\ SemFree(tbSem)
  /\ tbTask' = [tbTask EXCEPT ![i] = "inflight"]
  /\ tbSem' = tbSem - 1
  /\ UNCHANGED <<tbPc, tbStyle, tbZ, tbTiles, tbWorld, tbNext, tbOut,
                  tbFeatures, tbRound, tbFailed, tbKinds, tbFetchedAt, envVars>>

\* The request ends: 200 and a decodable body (the tile is cached and
\* returned), another status, or an exception (transport, timeout, decode).
\* The event loop handles a response only after every task gather created
\* has run to its first suspension.
TbRespond(i) ==
  /\ tbPc = "run"
  /\ tbNext > Len(tbTiles)
  /\ tbTask[i] = "inflight"
  /\ \E outcome \in {"ok", "http_error", "exception"} :
       LET d == Decoded(tbTiles[i][1], tbTiles[i][2], tbZ,
                        WorldLayers(tbWorld, tbTiles[i][1], tbTiles[i][2]))
           res == FetchTileResult(outcome, d)
       IN /\ IF outcome = "ok"
             THEN \E redisOk \in RedisOutcomes(cache) :
                    cache' = CacheAfterSet(cache, TileKey(tbStyle, tbZ, tbTiles[i]),
                                           d, TileTTL, now, redisOk)
             ELSE cache' = cache
          /\ tbOut' = [tbOut EXCEPT ![i] = res.out]
          /\ tbFailed' = [tbFailed EXCEPT ![i] = outcome # "ok"]
          /\ tbKinds' = IF outcome = "ok" THEN tbKinds ELSE tbKinds \cup {outcome}
          /\ tbFetchedAt' = IF outcome = "ok" THEN [tbFetchedAt EXCEPT ![i] = now]
                             ELSE tbFetchedAt
          /\ tbPc' = IF res.raised THEN "raised" ELSE tbPc
  /\ tbTask' = [tbTask EXCEPT ![i] = "done"]
  /\ tbSem' = tbSem + 1
  /\ UNCHANGED <<tbStyle, tbZ, tbTiles, tbWorld, tbNext, tbFeatures,
                  tbRound, now, settings>>

\* await asyncio.gather(...) returns once every task has; the features follow.
TbJoin ==
  /\ tbPc = "run"
  /\ HasApiKey(settings)
  /\ \A i \in 1..Len(tbTiles) : tbTask[i] = "done"
  /\ tbFeatures' = BatchFeatures(tbOut)
  /\ tbPc' = "joined"
  /\ UNCHANGED <<tbStyle, tbZ, tbTiles, tbWorld, tbNext, tbTask, tbOut, tbSem,
                  tbRound, tbFailed, tbKinds, tbFetchedAt, envVars>>

\* Time passes between two calls.
TbTick ==
  /\ tbPc = "joined"
  /\ tbRound < MaxRounds
  /\ Len(tbTiles) < SemLimit
  /\ now + 30 <= MaxTime
  /\ now' = now + 30
  /\ UNCHANGED <<tbVars, cache, settings>>

\* The next call over the same tiles and style.
TbAgain ==
  /\ tbPc = "joined"
  /\ tbRound < MaxRounds
  /\ Len(tbTiles) < SemLimit
  /\ HasApiKey(settings)
  /\ tbPc' = "run"
  /\ tbRound' = tbRound + 1
  /\ TbBegin(tbTiles)
  /\ UNCHANGED <<tbStyle, tbZ, tbTiles, tbWorld, tbFetchedAt, envVars>>

TbIdle ==
  /\ tbPc = "idle" /\ tbStyle = "" /\ tbZ = 0 /\ tbTiles = <<>> /\ tbWorld = ""
  /\ tbNext = 0 /\ tbTask = <<>> /\ tbOut = <<>> /\ tbSem = 0
  /\ tbFeatures = <<>> /\ tbRound = 0 /\ tbFailed = <<>> /\ tbKinds = {}
  /\ tbFetchedAt = <<>>

\* ========================================================= request machine
\* GET /live-chokepoints: the endpoint (api/traffic.py) calls
\* LiveChokepointService.get_live_chokepoints on the fixed Bangalore bbox,
\* one request after the other. A request advances at its awaits: the
\* result-cache lookup, the tile rounds with the sample extraction, the grid
\* probe, the incident fetch with the boost, and clustering, aggregation and
\* the result-cache write. A tile batch is taken whole here (its tasks are
\* the tile batch machine's), with the upstream up or down for the request.
\*
\* rqCaps: numpy, scikit-learn and mapbox-vector-tile were importable.
\* rqCalls, rqStages: the upstream requests the current request has issued
\* and the pipeline stages it has executed. rqPrev: the request before it.
\* rqRedisOk: the Redis calls of the current request succeed. rqCount: the
\* requests made so far.
VARIABLES rqPc, rqCaps, rqWorld, rqParams, rqZ, rqStyle, rqSamples,
          rqIncidents, rqResult, rqOutcome, rqCalls, rqStages, rqStart, rqPrev,
          rqRedisOk, rqCount

rqVars == <<rqPc, rqCaps, rqWorld, rqParams, rqZ, rqStyle, rqSamples,
            rqIncidents, rqResult, rqOutcome, rqCalls, rqStages, rqStart, rqPrev,
            rqRedisOk, rqCount>>

\* f"{v:.5f}" of a coordinate given in micro-degrees: 5 decimals, in 1e-5 deg.
Round5(vE6) == (vE6 + 5) \div 10

Params(z, epsM, minSamples, jfMin, radiusM, geocode) ==
  [bbox |-> BangaloreBBox, z |-> z, eps_m |-> epsM, min_samples |-> minSamples,
   jf_min |-> jfMin, incident_radius_m |-> radiusM, include_geocode |-> geocode]

\* A key that leaves the threshold out.
ResultKeyNoThreshold(p) ==
  <<"live_chokepoints", Round5(p.bbox.e6[1]), Round5(p.bbox.e6[2]),
    Round5(p.bbox.e6[3]), Round5(p.bbox.e6[4]), p.z, p.eps_m, p.min_samples,
    p.incident_radius_m, p.include_geocode>>

\* cache_key = f"live_chokepoints:{bbox:.5f}:z=..:eps=..:minS=..:jfmin=..:ir=..:geo=.."
ResultKey(p) ==
  <<"live_chokepoints", Round5(p.bbox.e6[1]), Round5(p.bbox.e6[2]),
    Round5(p.bbox.e6[3]), Round5(p.bbox.e6[4]), p.z, p.eps_m, p.min_samples,
    p.jf_min, p.incident_radius_m, p.include_geocode>>

\* A list of five styles.
StylesFive == <<"relative", "absolute", "relative-delay", "relative-categorized",
                "reduced-sensitivity">>

\* styles = ["relative", "absolute", "relative-delay", "relative-categorized"]
Styles == <<"relative", "absolute", "relative-delay", "relative-categorized">>

\* What the upstream holds for a tile under a flow style.
StyleLayers(world, style, x, y) ==
  IF world = "absolute_only"
  THEN << [name |-> "Traffic flow", extent |-> 4096,
           features |-> IF style = "absolute" /\ <<x, y>> = <<5862, 3799>>
                        THEN <<FlowFeature(500, Line2)>> ELSE <<>>] >>
  ELSE WorldLayers(world, x, y)

\* One task of a batch, to its end, given what the tile-cache lookup gave
\* (got, and the cache after it, c1): the cached tile, or the request, whose
\* tile is cached on success. ctx.up says whether the upstream answers 200
\* to the request's tile fetches, ctx.redisOk whether its Redis calls
\* succeed. acc = [cache, calls, outs].
FetchTileAfterLookup(acc, got, c1, k, d, ctx) ==
  IF got.hit
  THEN [cache |-> c1, calls |-> acc.calls, outs |-> Append(acc.outs, got.v)]
  ELSE [cache |-> IF ctx.up
                  THEN CacheAfterSet(c1, k, d, TileTTL, ctx.t, ctx.redisOk)
                  ELSE c1,
        calls |-> acc.calls + 1,
        outs |-> Append(acc.outs,
                        FetchTileResult(IF ctx.up THEN "ok" ELSE "exception", d).out)]

\* fetch_tile(x, y)
FetchTile(acc, xy, z, style, ctx) ==
  FetchTileAfterLookup(
    acc,
    CacheGet(acc.cache, TileKey(style, z, xy), ctx.t, ctx.redisOk),
    CacheAfterGet(acc.cache, TileKey(style, z, xy), ctx.t, ctx.redisOk),
    TileKey(style, z, xy),
    Decoded(xy[1], xy[2], z, StyleLayers(ctx.world, style, xy[1], xy[2])),
    ctx)

\* The tasks of one batch in list order.
RECURSIVE FetchTiles(_, _, _, _, _, _)
FetchTiles(acc, tiles, i, z, style, ctx) ==
  IF i > Len(tiles) THEN acc
  ELSE FetchTiles(FetchTile(acc, tiles[i], z, style, ctx), tiles, i + 1, z, style, ctx)

\* The feature loop over the decoded tiles of a batch.
BatchResult(r) ==
  [cache |-> r.cache, calls |-> r.calls, features |-> BatchFeatures(r.outs)]

\* _fetch_decode_tiles_with_style(tiles, z, style) -> [cache, calls, features]
FetchDecodeTilesWithStyle(c, calls, tiles, z, style, ctx) ==
  IF ~ctx.hasKey THEN [cache |-> c, calls |-> calls, features |-> <<>>]
  ELSE BatchResult(FetchTiles([cache |-> c, calls |-> calls, outs |-> <<>>],
                              tiles, 1, z, style, ctx))

\* A loop that returns for no style before the last.
StyleWinsNever(feats) == FALSE

\* "if feats:" the style's batch gave at least one feature.
StyleWins(feats) == feats # <<>>

\* _fetch_decode_tiles_multi(tiles, z): the first style with features, or
\* ([], styles[-1]). -> [cache, calls, features, style]
RECURSIVE FetchDecodeTilesMulti(_, _, _, _, _, _)
RECURSIVE AfterStyle(_, _, _, _, _)
AfterStyle(r, tiles, z, styles, ctx) ==
  IF StyleWins(r.features) \/ Len(styles) = 1
  THEN [cache |-> r.cache, calls |-> r.calls, features |-> r.features,
        style |-> Head(styles)]
  ELSE FetchDecodeTilesMulti(r.cache, r.calls, tiles, z, Tail(styles), ctx)

FetchDecodeTilesMulti(c, calls, tiles, z, styles, ctx) ==
  AfterStyle(FetchDecodeTilesWithStyle(c, calls, tiles, z, Head(styles), ctx),
             tiles, z, styles, ctx)

\* What a step of the ladder leaves in the log: its name, the zoom and the
\* number of tiles it works on, what it produced (features for a tile
\* fetch, samples for an extraction or a higher zoom), and the tile requests
\* the call has issued by the end of the step.
StepRec(name, z, ntiles, n, calls) ==
  [step |-> name, z |-> z, tiles |-> ntiles, n |-> n, calls |-> calls]

\* Where a tile round takes place: its zoom, its tile count and its first
\* tile, and the tile requests issued once its fetch is over.
At(tiles, z, calls) ==
  [z |-> z, tiles |-> Len(tiles), ox |-> tiles[1][1], oy |-> tiles[1][2],
   calls |-> calls]

WithStep(samples, name, at, steps) ==
  [samples |-> samples,
   steps |-> Append(steps, StepRec(name, at.z, at.tiles, Len(samples), at.calls))]

\* samples = self._build_samples_from_features(features, jf_min=...)
Extraction(name, features, jfMin, at, steps) ==
  WithStep(BuildSamplesFromFeaturesAt(features, jfMin, at.ox, at.oy), name, at, steps)

\* A relaxation that extracts again whatever the samples so far.
RelaxToAlways(r, relax, name, features, jfMin, at) ==
  IF relax THEN Extraction(name, features, jfMin, at, r.steps) ELSE r

\* "if not samples [and jf_min > 2.0]": extract again at a lower threshold.
RelaxTo(r, relax, name, features, jfMin, at) ==
  IF r.samples = <<>> /\ relax
  THEN Extraction(name, features, jfMin, at, r.steps) ELSE r

\* Step 3 on the first round's features: jf_min, then 2.0 when jf_min > 2.0,
\* then 0.5. -> [samples, steps]
RelaxedSamples(features, jfMin, at) ==
  RelaxTo(RelaxTo(Extraction("jfmin", features, jfMin, at,
                             <<StepRec("tiles", at.z, at.tiles, Len(features), at.calls)>>),
                  jfMin > 200, "relax2", features, 200, at),
          TRUE, "relax05", features, 50, at)

\* The state of the rounds: acc = [cache, calls, samples, steps].
AccOf(f, r) ==
  [cache |-> f.cache, calls |-> f.calls, samples |-> r.samples, steps |-> r.steps]

ZoomName(zAlt) == IF zAlt = 13 THEN "zoom13" ELSE "zoom14"
SkipName(zAlt) == IF zAlt = 13 THEN "skip13" ELSE "skip14"

\* One higher zoom: its tile round, and the samples at max(2.0, jf_min).
AltSamples(f, jfMin, at, name, steps) ==
  AccOf(f, Extraction(name, f.features, Max2(200, jfMin),
                      [at EXCEPT !.calls = f.calls], steps))

\* A zoom left out for its more than 32 tiles: no fetch, no extraction.
AltSkipped(acc, zAlt, altTiles) ==
  [acc EXCEPT !.steps = Append(acc.steps, StepRec(SkipName(zAlt), zAlt, Len(altTiles), 0,
                                                acc.calls))]

\* for z_alt in [13, 14]: skipped when z_alt <= z or over 32 tiles; break on
\* samples.
RECURSIVE AltZooms(_, _, _, _, _)
RECURSIVE AltZoom(_, _, _, _, _, _)
AltZoom(acc, altTiles, zAlts, z, p, ctx) ==
  IF Head(zAlts) <= z
  THEN AltZooms(acc, Tail(zAlts), z, p, ctx)
  ELSE IF Len(altTiles) > MaxTilesAlt
  THEN AltZooms(AltSkipped(acc, Head(zAlts), altTiles), Tail(zAlts), z, p, ctx)
  ELSE AltZooms(AltSamples(FetchDecodeTilesMulti(acc.cache, acc.calls, altTiles,
                                                 Head(zAlts), Styles, ctx),
                           p.jf_min, At(altTiles, Head(zAlts), acc.calls),
                           ZoomName(Head(zAlts)), acc.steps),
                Tail(zAlts), z, p, ctx)

AltZooms(acc, zAlts, z, p, ctx) ==
  IF zAlts = <<>> \/ acc.samples # <<>> THEN acc
  ELSE AltZoom(acc, TilesForBbox(p.bbox, Head(zAlts)), zAlts, z, p, ctx)

\* "if not samples and z < 14": the higher zooms.
WithAltZooms(acc, z, style, p, ctx) ==
  [round |-> IF acc.samples = <<>> /\ z < 14
             THEN AltZooms(acc, <<13, 14>>, z, p, ctx) ELSE acc,
   z |-> z, style |-> style]

\* The first tile round and the relaxation.
FirstRound(f, tiles, z, p, ctx) ==
  WithAltZooms(AccOf(f, RelaxedSamples(f.features, p.jf_min, At(tiles, z, f.calls))),
               z, f.style, p, ctx)

\* Step 2 and 3 at the zoom step 1 settled on.
CappedRounds(c, z, p, ctx) ==
  FirstRound(FetchDecodeTilesMulti(c, 0, TilesForBbox(p.bbox, z), z, Styles, ctx),
             TilesForBbox(p.bbox, z), z, p, ctx)

\* Steps 1 to 3 of get_live_chokepoints: the zoom floor and the tile cap, the
\* first tile round, the relaxation, the higher zooms.
\* -> [round |-> [cache, calls, samples, steps], z, style]
TileRounds(c, p, ctx) == CappedRounds(c, LiveZoom(p.bbox, p.z), p, ctx)

\* Requests the machine issues (jf_min * 100; include_geocode is off).
RqParamSet ==
  { Params(13, 150, 1, 400, 100, FALSE),
    Params(11, 150, 2, 0, 100, FALSE) }

RqWorlds == {"jammed", "absolute_only", "low", "empty"}

\* Incidents the upstream can report: a closed road at the sample of the
\* absolute_only world.
RqIncidentSet ==
  { Incident("a", "Point", <<[lon |-> 3576, lat |-> -3576]>>, TRUE) }

\* What the upstream answers to the probes of one request.
RqProbeResps ==
  { [status |-> "ok", cur |-> NumV(20), free |-> NumV(50), conf |-> NumV(100)],
    [status |-> "error", cur |-> MissingV, free |-> MissingV, conf |-> MissingV] }

\* Deployments: the settings, the capabilities, the cache backend and what
\* the upstream holds.
RqDeployments ==
  {[settings |-> [traffic |-> "'KEY'", maps |-> ""], caps |-> TRUE,
    cache |-> NewCache(redis), world |-> w] : redis \in BOOLEAN, w \in RqWorlds}
  \cup {[settings |-> [traffic |-> "", maps |-> "'KEY'"], caps |-> TRUE,
         cache |-> NewCache(FALSE), world |-> "jammed"],
        [settings |-> [traffic |-> " '' ", maps |-> ""], caps |-> TRUE,
         cache |-> NewCache(FALSE), world |-> "jammed"],
        [settings |-> [traffic |-> "'KEY'", maps |-> ""], caps |-> FALSE,
         cache |-> NewCache(FALSE), world |-> "jammed"]}

\* The request before: its key, outcome and result, whether it executed the
\* pipeline, and when it was made.
NoPrev == [valid |-> FALSE, key |-> <<>>, outcome |-> "", ran |-> FALSE,
           result |-> [clusters |-> <<>>], at |-> 0]

RqFresh ==
  /\ rqZ = 0 /\ rqStyle = "" /\ rqSamples = <<>> /\ rqIncidents = <<>>
  /\ rqResult = [clusters |-> <<>>] /\ rqOutcome = "" /\ rqCalls = 0
  /\ rqStages = {} /\ rqStart = 0 /\ rqRedisOk = TRUE

RqInit ==
  /\ now = 0
  /\ \E d \in RqDeployments :
       /\ settings = d.settings /\ rqCaps = d.caps
       /\ cache = d.cache /\ rqWorld = d.world
  /\ rqPc = "idle"
  /\ rqCount = 0
  /\ rqParams = Params(13, 150, 1, 400, 100, FALSE)
  /\ RqFresh
  /\ rqPrev = NoPrev

\* The call: the capability checks raise RuntimeError (the endpoint answers
\* 500); then the result-cache lookup, and "if cached: return cached".
RqCall ==
  /\ rqPc = "idle"
  /\ rqCount < MaxRequests
  /\ rqCount' = rqCount + 1
  /\ \E p \in RqParamSet :
       /\ rqParams' = p
       /\ IF ~rqCaps
          THEN /\ rqPc' = "failed"
               /\ rqOutcome' = "error500"
               /\ rqResult' = [clusters |-> <<>>]
               /\ cache' = cache
               /\ rqRedisOk' = TRUE
          ELSE \E redisOk \in RedisOutcomes(cache) :
                 LET got == CacheGet(cache, ResultKey(p), now, redisOk) IN
                 /\ rqRedisOk' = redisOk
                 /\ cache' = CacheAfterGet(cache, ResultKey(p), now, redisOk)
                 /\ IF got.hit
                    THEN rqPc' = "returned" /\ rqOutcome' = "ok" /\ rqResult' = got.v
                    ELSE rqPc' = "tiles" /\ rqOutcome' = ""
                         /\ rqResult' = [clusters |-> <<>>]
  /\ rqStart' = now
  /\ rqCalls' = 0
  /\ rqStages' = {}
  /\ rqZ' = 0 /\ rqStyle' = "" /\ rqSamples' = <<>> /\ rqIncidents' = <<>>
  /\ UNCHANGED <<rqCaps, rqWorld, rqPrev, now, settings>>

\* What steps 1 to 3 leave behind.
RqAfterTiles(r) ==
  /\ cache' = r.round.cache
  /\ rqCalls' = r.round.calls
  /\ rqSamples' = r.round.samples
  /\ rqZ' = r.z
  /\ rqStyle' = r.style
  /\ rqPc' = IF r.round.samples = <<>> THEN "probe" ELSE "incidents"

\* Steps 1 to 3.
RqTiles ==
  /\ rqPc = "tiles"
  /\ \E up \in BOOLEAN :
       RqAfterTiles(TileRounds(cache, rqParams,
                               [world |-> rqWorld, up |-> up, redisOk |-> rqRedisOk,
                                t |-> now, hasKey |-> HasApiKey(settings)]))
  /\ rqStages' = rqStages \cup {"tiles", "extract"}
  /\ UNCHANGED <<rqCaps, rqWorld, rqParams, rqIncidents, rqResult, rqOutcome,
                  rqStart, rqPrev, rqRedisOk, rqCount, now, settings>>

\* if not samples: samples = await self._collect_flow_segment_samples(...)
RqProbe ==
  /\ rqPc = "probe"
  /\ \E resp \in RqProbeResps :
       rqSamples' = CollectFlowSegmentSamples(HasApiKey(settings), ExGridPoints,
                                              [i \in 1..MaxProbes |-> resp])
  /\ rqCalls' = rqCalls + (IF HasApiKey(settings) THEN MaxProbes ELSE 0)
  /\ rqStages' = rqStages \cup {"probe"}
  /\ rqPc' = "incidents"
  /\ UNCHANGED <<rqCaps, rqWorld, rqParams, rqZ, rqStyle, rqIncidents, rqResult,
                  rqOutcome, rqStart, rqPrev, rqRedisOk, rqCount, envVars>>

\* Step 4: incidents = await self._fetch_incidents(bbox) (one request for a
\* bbox this small; [] without a credential and on any failure), the boost.
RqIncidents ==
  /\ rqPc = "incidents"
  /\ \E incs \in (IF HasApiKey(settings)
                  THEN SeqsUpTo(RqIncidentSet, MaxIncidents) ELSE {<<>>}) :
       /\ rqIncidents' = incs
       /\ rqSamples' = IF incs # <<>>
                       THEN BoostSamplesWithIncidents(rqSamples, incs,
                                                      rqParams.incident_radius_m)
                       ELSE rqSamples
  /\ rqCalls' = rqCalls + (IF HasApiKey(settings) THEN 1 ELSE 0)
  /\ rqStages' = rqStages \cup {"incidents"}
  /\ rqPc' = "cluster"
  /\ UNCHANGED <<rqCaps, rqWorld, rqParams, rqZ, rqStyle, rqResult, rqOutcome,
                  rqStart, rqPrev, rqRedisOk, rqCount, envVars>>

\* Step 6 on the clusters of step 5 (include_geocode is off: no names).
RqAggregate(clusters) ==
  AggregateAndScore(clusters, rqIncidents,
                    Max2(rqParams.incident_radius_m, MinIncidentCountRadius),
                    NoNames(clusters))

\* Step 7: await self._aset_cache(cache_key, result, 60); return result
RqStore(result) ==
  /\ rqResult' = result
  /\ cache' = CacheAfterSet(cache, ResultKey(rqParams), result, ResultTTL,
                            now, rqRedisOk)

\* Steps 5 to 7: clustering, aggregation, the result-cache write, the return.
RqFinish ==
  /\ rqPc = "cluster"
  /\ RqStore(RqAggregate(ClusterSamples(rqSamples, rqParams.eps_m,
                                        rqParams.min_samples)))
  /\ rqStages' = rqStages \cup {"cluster", "aggregate", "store"}
  /\ rqOutcome' = "ok"
  /\ rqPc' = "returned"
  /\ UNCHANGED <<rqCaps, rqWorld, rqParams, rqZ, rqStyle, rqSamples, rqIncidents,
                  rqCalls, rqStart, rqPrev, rqRedisOk, rqCount, now, settings>>

\* The request is over; the next one can be made.
RqDone ==
  /\ rqPc \in {"returned", "failed"}
  /\ rqPrev' = [valid |-> TRUE, key |-> ResultKey(rqParams), outcome |-> rqOutcome,
                ran |-> rqStages # {}, result |-> rqResult, at |-> rqStart]
  /\ rqPc' = "idle"
  /\ rqZ' = 0 /\ rqStyle' = "" /\ rqSamples' = <<>> /\ rqIncidents' = <<>>
  /\ rqResult' = [clusters |-> <<>>] /\ rqOutcome' = "" /\ rqCalls' = 0
  /\ rqStages' = {} /\ rqStart' = 0 /\ rqRedisOk' = TRUE
  /\ UNCHANGED <<rqCaps, rqWorld, rqParams, rqCount, envVars>>

\* Time passes between two requests.
RqTick ==
  /\ rqPc = "idle"
  /\ rqCount \in 1..(MaxRequests - 1)
  /\ now + 30 <= MaxTime
  /\ now' = now + 30
  /\ UNCHANGED <<rqVars, cache, settings>>

RqIdle ==
  /\ rqPc = "off" /\ rqCaps = TRUE /\ rqWorld = "" /\ rqCount = 0
  /\ rqParams = Params(13, 150, 1, 400, 100, FALSE)
  /\ RqFresh
  /\ rqPrev = NoPrev

\* ========================================================== ladder machine
\* One call of get_live_chokepoints on a cold cache, for the bboxes, zooms
\* and thresholds a caller can pass: steps 1 to 3 with the log of the ladder
\* (ldSteps), the grid probe, then incidents, clustering, aggregation and the
\* result-cache write. ldUp: the upstream answers the tile requests.
\* ldIncFetches: the calls of _fetch_incidents the request has made.
VARIABLES ldPc, ldParams, ldWorld, ldUp, ldSteps, ldSamples, ldIncidents,
          ldResult, ldIncFetches

ldVars == <<ldPc, ldParams, ldWorld, ldUp, ldSteps, ldSamples, ldIncidents,
            ldResult, ldIncFetches>>

ParamsAt(bbox, z, epsM, minSamples, jfMin, radiusM) ==
  [Params(z, epsM, minSamples, jfMin, radiusM, FALSE) EXCEPT !.bbox = bbox]

LdParamSet ==
  { ParamsAt(SingleTileBBox, 13, 150, 1, 400, 100),
    Params(13, 150, 1, 400, 100, FALSE),
    Params(11, 150, 2, 0, 100, FALSE),
    Params(13, 150, 1, 1100, 100, FALSE),
    ParamsAt(MidBBox, 12, 150, 1, 400, 100),
    ParamsAt(WideBBox, 12, 150, 1, 400, 100) }

LdWorlds == {"jammed", "low", "empty", "single", "fine"}

LdInit ==
  /\ now = 0
  /\ cache = NewCache(FALSE)
  /\ settings \in {[traffic |-> "'KEY'", maps |-> ""], [traffic |-> " '' ", maps |-> ""]}
  /\ ldPc = "call"
  /\ ldParams \in LdParamSet
  /\ ldWorld \in LdWorlds
  /\ ldUp \in BOOLEAN
  /\ ldSteps = <<>>
  /\ ldSamples = <<>>
  /\ ldIncidents = <<>>
  /\ ldResult = [clusters |-> <<>>]
  /\ ldIncFetches = 0

\* What steps 1 to 3 leave behind.
LdAfterTiles(r) ==
  /\ cache' = r.round.cache
  /\ ldSteps' = r.round.steps
  /\ ldSamples' = r.round.samples
  /\ ldPc' = IF r.round.samples = <<>> THEN "probe" ELSE "incidents"

\* Steps 1 to 3 (the result-cache lookup before them misses: the cache is cold).
LdTiles ==
  /\ ldPc = "call"
  /\ LdAfterTiles(TileRounds(cache, ldParams,
                             [world |-> ldWorld, up |-> ldUp, redisOk |-> TRUE,
                              t |-> now, hasKey |-> HasApiKey(settings)]))
  /\ UNCHANGED <<ldParams, ldWorld, ldUp, ldIncidents, ldResult, ldIncFetches,
                  now, settings>>

\* The samples the probe gave, and its entry in the log.
LdAfterProbe(r) ==
  /\ ldSamples' = r.samples
  /\ ldSteps' = r.steps

\* if not samples: samples = await self._collect_flow_segment_samples(...)
LdProbe ==
  /\ ldPc = "probe"
  /\ \E resp \in RqProbeResps :
       LdAfterProbe(WithStep(CollectFlowSegmentSamples(HasApiKey(settings), ExGridPoints,
                                                       [i \in 1..MaxProbes |-> resp]),
                             "probe",
                             [z |-> 0, tiles |-> 0,
                              calls |-> ldSteps[Len(ldSteps)].calls],
                             ldSteps))
  /\ ldPc' = "incidents"
  /\ UNCHANGED <<ldParams, ldWorld, ldUp, ldIncidents, ldResult, ldIncFetches,
                  envVars>>

\* Step 4: the incidents the upstream reports, and the boost.
LdIncidents ==
  /\ ldPc = "incidents"
  /\ \E incs \in (IF HasApiKey(settings)
                  THEN SeqsUpTo(RqIncidentSet, 1) ELSE {<<>>}) :
       /\ ldIncidents' = incs
       /\ ldSamples' = IF incs # <<>>
                       THEN BoostSamplesWithIncidents(ldSamples, incs,
                                                      ldParams.incident_radius_m)
                       ELSE ldSamples
  /\ ldIncFetches' = ldIncFetches + 1
  /\ ldPc' = "cluster"
  /\ UNCHANGED <<ldParams, ldWorld, ldUp, ldSteps, ldResult, envVars>>

\* What steps 6 and 7 leave behind.
LdStore(result) ==
  /\ ldResult' = result
  /\ cache' = CacheAfterSet(cache, ResultKey(ldParams), result, ResultTTL, now, TRUE)

\* Steps 5 to 7: clustering, aggregation, the result-cache write, the return.
LdFinish ==
  /\ ldPc = "cluster"
  /\ LdStore(AggregateAndScore(
               ClusterSamples(ldSamples, ldParams.eps_m, ldParams.min_samples),
               ldIncidents,
               Max2(ldParams.incident_radius_m, MinIncidentCountRadius),
               NoNames(ClusterSamples(ldSamples, ldParams.eps_m, ldParams.min_samples))))
  /\ ldPc' = "returned"
  /\ UNCHANGED <<ldParams, ldWorld, ldUp, ldSteps, ldSamples, ldIncidents,
                  ldIncFetches, now, settings>>

LdIdle ==
  /\ ldPc = "idle" /\ ldParams = Params(13, 150, 1, 400, 100, FALSE)
  /\ ldWorld = "" /\ ldUp = TRUE /\ ldSteps = <<>> /\ ldSamples = <<>>
  /\ ldIncidents = <<>> /\ ldResult = [clusters |-> <<>>]
  /\ ldIncFetches = 0

\* ======================================================= incident machine
\* _fetch_incidents(bbox): the bbox (milli-degrees, <<min_lon, min_lat,
\* max_lon, max_lat>>) is split while its area exceeds 8000 km2, the
\* sub-bboxes are fetched concurrently, the responses merged in sub-bbox
\* order and deduplicated by id.

\* cos(lat) * 1e5 between 12 and 14 degrees north (0.97815 down to 0.97030).
CosE5(latMd) == 97815 - ((latMd - 12000) * 785) \div 2000

\* haversine_m / 1000 along a meridian, in tenths of a km: 111.195 km per degree.
LatDistKm10(b) == ((b[4] - b[2]) * 1112) \div 1000

\* haversine_m / 1000 along the parallel of min_lat, in tenths of a km (for
\* spans of a few degrees the great-circle arc is the span times cos(lat)).
LonDistKm10(b) == ((((b[3] - b[1]) * 1112) \div 1000) * CosE5(b[2])) \div 100000

\* _calculate_bbox_area_km2
CalculateBboxAreaKm2(b) == (LatDistKm10(b) * LonDistKm10(b)) \div 100

\* A split test that never splits.
NeedsSplitNever(b) == FALSE

\* "if area <= max_area_km2: return [bbox]", negated.
NeedsSplit(b) == CalculateBboxAreaKm2(b) > MaxAreaKm2

\* The halves: along the longitude when lon_span >= lat_span, else the latitude.
Halves(b) ==
  IF b[3] - b[1] >= b[4] - b[2]
  THEN << <<b[1], b[2], (b[1] + b[3]) \div 2, b[4]>>,
          <<(b[1] + b[3]) \div 2, b[2], b[3], b[4]>> >>
  ELSE << <<b[1], b[2], b[3], (b[2] + b[4]) \div 2>>,
          <<b[1], (b[2] + b[4]) \div 2, b[3], b[4]>> >>

\* _split_large_bbox
RECURSIVE SplitLargeBbox(_)
SplitLargeBbox(b) ==
  IF ~NeedsSplit(b) THEN <<b>>
  ELSE SplitLargeBbox(Halves(b)[1]) \o SplitLargeBbox(Halves(b)[2])

\* An incident of a response: properties.id (a property value, MissingV when
\* absent or None) and tag, which stands for the rest of its content.
Inc(id, tag) == [id |-> id, tag |-> tag]

\* Python truth of an id: None, "" and 0 are false.
Truthy(v) == (v.t = "str" /\ v.s # "") \/ (v.t = "num" /\ v.n # 0)

IncResp(status, incidents) == [status |-> status, incidents |-> incidents]

\* One incidentDetails response. status: "ok" (200, a JSON object holding
\* the incidents), "ok_not_object" (200, a JSON body that is no object: a
\* list, null, a string), "http_error" (another status), "exception"
\* (transport error, timeout, a body that is no JSON).
\* _fetch_incidents_single: [] without a key, on a status other than 200 and
\* on an exception; else the incidents of the body.
FetchIncidentsSingle(hasKey, resp) ==
  IF ~hasKey \/ resp.status # "ok" THEN <<>> ELSE resp.incidents

\* data.get("incidents") follows the try block: a body that is no object
\* raises AttributeError out of _fetch_incidents_single.
FetchIncidentsSingleRaises(hasKey, resp) ==
  hasKey /\ resp.status = "ok_not_object"

\* A test that takes every incident with an id for a new one.
IsNewIdAlways(id, seen) == Truthy(id)

\* "if incident_id and incident_id not in seen_ids"
IsNewId(id, seen) == Truthy(id) /\ id \notin seen

\* The deduplication loop over all_incidents.
RECURSIVE UniqueFrom(_, _, _, _)
UniqueFrom(all, i, seen, unique) ==
  IF i > Len(all) THEN unique
  ELSE IF IsNewId(all[i].id, seen)
  THEN UniqueFrom(all, i + 1, seen \cup {all[i].id}, Append(unique, all[i]))
  ELSE IF ~Truthy(all[i].id)
  THEN UniqueFrom(all, i + 1, seen, Append(unique, all[i]))
  ELSE UniqueFrom(all, i + 1, seen, unique)

UniqueIncidents(all) == UniqueFrom(all, 1, {}, <<>>)

\* What _fetch_incidents returns from the results of its sub-calls (a
\* sub-call that raised counts as an empty result: gather hands its
\* exception back and the merge passes over it).
MergedIncidents(results) ==
  IF Len(results) = 1 THEN results[1] ELSE UniqueIncidents(Flatten(results))

\* inRaised: the sub-calls that ended with an exception of their own.
VARIABLES inPc, inBBox, inSubs, inDone, inResults, inHttp, inOut, inRaised

inVars == <<inPc, inBBox, inSubs, inDone, inResults, inHttp, inOut, inRaised>>

\* 4 x 2 degrees (97,000 km2, sixteen sub-bboxes).
InWideBBox == <<76000, 12000, 80000, 14000>>

\* The deployment's extent (11 km2); 0.8 x 0.8 degrees (7,700 km2); 1 x 1
\* degree (12,000 km2, two halves); 2 x 1 and 1 x 2 degrees (four quarters);
\* the wide bbox.
InBBoxes ==
  { <<77623, 12904, 77663, 12925>>,
    <<77000, 12500, 77800, 13300>>,
    <<77000, 12500, 78000, 13500>>,
    <<77000, 12000, 79000, 13000>>,
    <<77000, 12000, 78000, 14000>>,
    InWideBBox }

InResponses ==
  { IncResp("ok", <<>>),
    IncResp("ok", <<Inc(StrV("a"), 1)>>),
    IncResp("ok", <<Inc(StrV("a"), 2), Inc(StrV("b"), 1)>>),
    IncResp("ok", <<Inc(MissingV, 1), Inc(MissingV, 1)>>),
    IncResp("ok", <<Inc(StrV(""), 1)>>),
    IncResp("http_error", <<Inc(StrV("a"), 3)>>),
    IncResp("exception", <<>>),
    IncResp("ok_not_object", <<>>) }

\* The responses a sub-call can get: any of them, and for the wide bbox,
\* whose sixteen sub-calls need no variety, an empty list of incidents.
InResponsesOf(bbox, hasKey) ==
  IF ~hasKey THEN {IncResp("none", <<>>)}
  ELSE IF bbox = InWideBBox THEN {IncResp("ok", <<>>)}
  ELSE InResponses

\* The sub-calls whose request is in flight: gather starts every coroutine,
\* and none waits for anything before its request.
InInFlight ==
  IF inPc = "run" /\ HasApiKey(settings)
  THEN {i \in 1..Len(inSubs) : ~inDone[i]} ELSE {}

InInit ==
  /\ now = 0
  /\ cache = NewCache(FALSE)
  /\ settings \in {[traffic |-> "'KEY'", maps |-> ""], [traffic |-> " '' ", maps |-> ""]}
  /\ inPc = "call"
  /\ inBBox \in InBBoxes
  /\ inSubs = <<>>
  /\ inDone = <<>>
  /\ inResults = <<>>
  /\ inHttp = 0
  /\ inOut = <<>>
  /\ inRaised = {}

\* sub_bboxes = self._split_large_bbox(bbox); one coroutine per sub-bbox (the
\* bbox itself when there is one).
InSplit ==
  /\ inPc = "call"
  /\ inSubs' = SplitLargeBbox(inBBox)
  /\ inDone' = [i \in 1..Len(SplitLargeBbox(inBBox)) |-> FALSE]
  /\ inResults' = [i \in 1..Len(SplitLargeBbox(inBBox)) |-> <<>>]
  /\ inPc' = "run"
  /\ UNCHANGED <<inBBox, inHttp, inOut, inRaised, envVars>>

\* The sub-call for sub-bbox i completes: without a key at once, else with
\* the response of its request.
InRespond(i) ==
  /\ inPc = "run"
  /\ ~inDone[i]
  /\ \E resp \in InResponsesOf(inBBox, HasApiKey(settings)) :
       /\ inResults' = [inResults EXCEPT
                          ![i] = FetchIncidentsSingle(HasApiKey(settings), resp)]
       /\ inRaised' = IF FetchIncidentsSingleRaises(HasApiKey(settings), resp)
                        THEN inRaised \cup {i} ELSE inRaised
  /\ inHttp' = inHttp + (IF HasApiKey(settings) THEN 1 ELSE 0)
  /\ inDone' = [inDone EXCEPT ![i] = TRUE]
  /\ UNCHANGED <<inPc, inBBox, inSubs, inOut, envVars>>

\* Every sub-call is done: merge, deduplicate, return. The single call
\* is awaited as it is ("return await self._fetch_incidents_single(bbox)"),
\* so its exception leaves _fetch_incidents; gather(return_exceptions=True)
\* keeps those of several sub-calls.
InReturn ==
  /\ inPc = "run"
  /\ \A i \in 1..Len(inSubs) : inDone[i]
  /\ inOut' = MergedIncidents(inResults)
  /\ inPc' = IF Len(inSubs) = 1 /\ inRaised # {} THEN "raised" ELSE "returned"
  /\ UNCHANGED <<inBBox, inSubs, inDone, inResults, inHttp, inRaised, envVars>>

InIdle == inPc = "idle" /\ inBBox = <<0, 0, 0, 0>> /\ inSubs = <<>> /\ inDone = <<>>
          /\ inResults = <<>> /\ inHttp = 0 /\ inOut = <<>> /\ inRaised = {}

\* =================================================== cancellation machine
\* One get_live_chokepoints request by its awaits, with the subtasks each
\* await waits for, and a cancel() of the request's task at any of them:
\*   tile      await asyncio.gather(fetch_tile ...)       (a tile cached on 200)
\*   probe     await asyncio.gather(probe ...)            (no cache)
\*   incident  await _fetch_incidents_single / gather     (no cache)
\*   geocode   await self._reverse_geocode, one cluster after the other, under
\*             "try: ... except Exception: road_name = None" (a name cached)
\* then, with no await in between, the result-cache write and the return.
\* A subtask is "new" (created, not yet run), "io" (suspended in
\* client.get), "done", "aborted" (cancelled in its request) or "dropped"
\* (cancelled before it ran).
VARIABLES cnPc, cnTask, cnOk, cnGeo, cnSubs, cnCancelled, cnAt, cnSnap, cnOut

cnVars == <<cnPc, cnTask, cnOk, cnGeo, cnSubs, cnCancelled, cnAt, cnSnap, cnOut>>

CnPhases == {"tile", "probe", "incident", "geocode"}

CnParams(geo) == Params(13, 150, 1, 400, 100, geo)

CnTiles == TilesForBbox(BangaloreBBox, 13)

\* Every "except" of the request's path is "except Exception": it catches
\* what derives from Exception. A handler that catches whatever is raised:
IsExceptionAlways(exc) == TRUE

\* asyncio.CancelledError derives from BaseException (Python 3.8 and later).
IsException(exc) == exc # "CancelledError"

\* gather.cancel() cancels every child that is not done.
CancelReaches(tasks) ==
  [i \in 1..Len(tasks) |-> IF tasks[i] = "io" THEN "aborted"
                           ELSE IF tasks[i] = "new" THEN "dropped" ELSE tasks[i]]

\* The tasks the await of a phase waits for.
CnTasksOf(phase, subs) ==
  CASE phase = "tile" -> [i \in 1..Len(CnTiles) |-> "new"]
    [] phase = "probe" -> [i \in 1..MaxProbes |-> "new"]
    [] phase = "incident" -> [i \in 1..subs |-> "new"]
    [] phase = "geocode" -> <<"io", "new">>

\* _reverse_geocode returned for cluster i: the loop awaits the next cluster.
AfterGeocode(tasks, i) ==
  [j \in 1..Len(tasks) |-> IF j = i THEN "done"
                           ELSE IF j = i + 1 /\ tasks[j] = "new" THEN "io"
                           ELSE tasks[j]]

\* The cache after subtask i of a phase got its 200: fetch_tile caches the
\* decoded tile for 60 s, _reverse_geocode the name for 300 s.
CnCached(c, phase, i, t) ==
  CASE phase = "tile" ->
         CacheAfterSet(c, TileKey("relative", 13, CnTiles[i]),
                       Decoded(CnTiles[i][1], CnTiles[i][2], 13,
                               WorldLayers("dense", CnTiles[i][1], CnTiles[i][2])),
                       TileTTL, t, TRUE)
    [] phase = "geocode" -> CacheAfterSet(c, <<"revgeo", i>>, "name", GeocodeTTL, t, TRUE)
    [] OTHER -> c

\* The phase after the await of a phase returned: the probe when the tiles
\* gave nothing, the geocoder when asked for, "store" when none is left.
CnNextPhase(phase, oks, geo) ==
  CASE phase = "tile" -> IF \E i \in 1..Len(oks) : oks[i] THEN "incident" ELSE "probe"
    [] phase = "probe" -> "incident"
    [] phase = "incident" -> IF geo THEN "geocode" ELSE "store"
    [] phase = "geocode" -> "store"

CnInit ==
  /\ now = 0
  /\ cache = NewCache(FALSE)
  /\ settings = [traffic |-> "'KEY'", maps |-> ""]
  /\ cnPc = "call"
  /\ cnTask = <<>>
  /\ cnOk = <<>>
  /\ cnGeo \in BOOLEAN
  /\ cnSubs \in {1, 2}
  /\ cnCancelled = FALSE
  /\ cnAt = "none"
  /\ cnSnap = NewCache(FALSE)
  /\ cnOut = "pending"

\* The request enters the await of a phase.
CnEnter(phase) ==
  /\ cnPc' = phase
  /\ cnTask' = CnTasksOf(phase, cnSubs)
  /\ cnOk' = [i \in 1..Len(CnTasksOf(phase, cnSubs)) |-> FALSE]

\* The call: a miss in the cold result cache, then the first tile round.
CnBegin ==
  /\ cnPc = "call"
  /\ CnEnter("tile")
  /\ UNCHANGED <<cnGeo, cnSubs, cnCancelled, cnAt, cnSnap, cnOut, envVars>>

\* A subtask gather created runs to its client.get.
CnStart(i) ==
  /\ cnPc \in CnPhases \ {"geocode"}
  /\ cnTask[i] = "new"
  /\ cnTask' = [cnTask EXCEPT ![i] = "io"]
  /\ UNCHANGED <<cnPc, cnOk, cnGeo, cnSubs, cnCancelled, cnAt, cnSnap, cnOut, envVars>>

\* The request of a subtask ends, with 200 or not; on 200 a tile or a road
\* name is cached before the subtask returns.
CnRespond(i) ==
  /\ cnPc \in CnPhases
  /\ cnTask[i] = "io"
  /\ \E ok \in BOOLEAN :
       /\ cache' = IF ok THEN CnCached(cache, cnPc, i, now) ELSE cache
       /\ cnOk' = [cnOk EXCEPT ![i] = ok]
  /\ cnTask' = IF cnPc = "geocode" THEN AfterGeocode(cnTask, i)
               ELSE [cnTask EXCEPT ![i] = "done"]
  /\ UNCHANGED <<cnPc, cnGeo, cnSubs, cnCancelled, cnAt, cnSnap, cnOut, now, settings>>

\* The await of the phase returns: the next phase, or steps 5 to 7 (no await
\* there): the result is cached and returned.
CnJoin ==
  /\ cnPc \in CnPhases
  /\ \A i \in 1..Len(cnTask) : cnTask[i] = "done"
  /\ IF CnNextPhase(cnPc, cnOk, cnGeo) = "store"
     THEN /\ cache' = CacheAfterSet(cache, ResultKey(CnParams(cnGeo)),
                                    [clusters |-> <<>>], ResultTTL, now, TRUE)
          /\ cnPc' = "returned"
          /\ cnOut' = "result"
          /\ UNCHANGED <<cnTask, cnOk>>
     ELSE /\ CnEnter(CnNextPhase(cnPc, cnOk, cnGeo))
          /\ UNCHANGED <<cache, cnOut>>
  /\ UNCHANGED <<cnGeo, cnSubs, cnCancelled, cnAt, cnSnap, now, settings>>

\* The subtask the geocode loop is waiting for (0: none, the await is over).
CnWaitingFor(tasks) ==
  IF \E i \in 1..Len(tasks) : tasks[i] = "io"
  THEN CHOOSE i \in 1..Len(tasks) : tasks[i] = "io" ELSE 0

\* cancel() on the request's task while it is suspended in the await of a
\* phase: CancelledError is raised there. In the geocode loop it meets
\* "except Exception"; everywhere else no handler is on its way, it leaves
\* get_live_chokepoints and gather cancels the children.
CnCancel ==
  /\ cnPc \in CnPhases
  /\ ~cnCancelled
  /\ cnCancelled' = TRUE
  /\ cnAt' = cnPc
  /\ cnSnap' = cache
  /\ IF cnPc = "geocode" /\ IsException("CancelledError")
     THEN /\ cnTask' = AfterGeocode(cnTask, CnWaitingFor(cnTask))
          /\ UNCHANGED <<cnPc, cnOut>>
     ELSE /\ cnTask' = CancelReaches(cnTask)
          /\ cnPc' = "cancelled"
          /\ cnOut' = "cancelled"
  /\ UNCHANGED <<cnOk, cnGeo, cnSubs, envVars>>

CnIdle == /\ cnPc = "idle" /\ cnTask = <<>> /\ cnOk = <<>> /\ cnGeo = FALSE
          /\ cnSubs = 1 /\ cnCancelled = FALSE /\ cnAt = "none"
          /\ cnSnap = NewCache(FALSE) /\ cnOut = "pending"

\* ======================================================== coverage machine
\* Step 1 as a function of the bbox and the requested zoom, on the live path
\* (get_live_chokepoints) and on the probe path (vector_probe): the zoom of
\* the first tile fetch and the number of tiles handed to it.
VARIABLES cvPc, cvBBox, cvReqZ, cvZoom, cvTiles

cvVars == <<cvPc, cvBBox, cvReqZ, cvZoom, cvTiles>>

CvBBoxes == {BangaloreBBox, SingleTileBBox, MidBBox, WideBBox}

\* z: int = Query(13, ge=0, le=22)
CvZooms == 0..22

CvInit ==
  /\ cvPc = "call"
  /\ cvBBox \in CvBBoxes
  /\ cvReqZ \in CvZooms
  /\ cvZoom = 0
  /\ cvTiles = 0

\* get_live_chokepoints up to "features, used_style = await ..._multi(tiles, z)"
CvLive ==
  /\ cvPc = "call"
  /\ cvZoom' = LiveZoom(cvBBox, cvReqZ)
  /\ cvTiles' = TileCount(cvBBox, LiveZoom(cvBBox, cvReqZ))
  /\ cvPc' = "live"
  /\ UNCHANGED <<cvBBox, cvReqZ>>

\* vector_probe up to "features, used_style = await svc._fetch_decode_tiles_multi"
CvProbe ==
  /\ cvPc = "call"
  /\ cvZoom' = ProbeZoom(cvBBox, cvReqZ)
  /\ cvTiles' = TileCount(cvBBox, ProbeZoom(cvBBox, cvReqZ))
  /\ cvPc' = "probe"
  /\ UNCHANGED <<cvBBox, cvReqZ>>

CvIdle == cvPc = "idle" /\ cvBBox = BangaloreBBox /\ cvReqZ = 0
          /\ cvZoom = 0 /\ cvTiles = 0

\* ============================================================ cache machine
\* The shared Cache (cache.py) used on its own: set(k, v, ttl) and get(k)
\* calls one after the other as the clock moves, with the in-memory backend
\* or with Redis configured, where any single Redis call can raise.
\* chWrote[k]: the last set of k that returned; chGot: the last get, since
\* the last set.
VARIABLES chPc, chWrote, chGot, chSets

chVars == <<chPc, chWrote, chGot, chSets>>

ChKeys == {"k1", "k2"}
ChValues == {"v1", "v2"}

NoWrite == [set |-> FALSE, v |-> "", at |-> 0, ttl |-> 0]
NoGot == [valid |-> FALSE, k |-> "", res |-> Miss, at |-> 0]

ChInit ==
  /\ now = 0
  /\ cache \in {NewCache(FALSE), NewCache(TRUE)}
  /\ settings = [traffic |-> "", maps |-> ""]
  /\ chPc = "open"
  /\ chWrote = [k \in ChKeys |-> NoWrite]
  /\ chGot = NoGot
  /\ chSets = 0

\* Cache.set(k, v, ttl)
ChSet(k, v, redisOk) ==
  /\ chPc = "open"
  /\ chSets < MaxRequests
  /\ cache' = CacheAfterSet(cache, k, v, ResultTTL, now, redisOk)
  /\ chWrote' = [chWrote EXCEPT ![k] = [set |-> TRUE, v |-> v, at |-> now,
                                        ttl |-> ResultTTL]]
  /\ chGot' = NoGot
  /\ chSets' = chSets + 1
  /\ UNCHANGED <<chPc, now, settings>>

\* Cache.get(k)
ChGet(k, redisOk) ==
  /\ chPc = "open"
  /\ chGot' = [valid |-> TRUE, k |-> k, res |-> CacheGet(cache, k, now, redisOk),
               at |-> now]
  /\ cache' = CacheAfterGet(cache, k, now, redisOk)
  /\ UNCHANGED <<chPc, chWrote, chSets, now, settings>>

\* 30 s pass.
ChTick ==
  /\ chPc = "open"
  /\ now + 30 <= MaxTime
  /\ now' = now + 30
  /\ UNCHANGED <<chVars, cache, settings>>

ChIdle == chPc = "idle" /\ chWrote = [k \in ChKeys |-> NoWrite] /\ chGot = NoGot /\ chSets = 0

\* ====================================================== multi-style machine
\* One call of _fetch_decode_tiles_multi(tiles, z), a style batch per step:
\* msTried: the styles whose batch has run, in order; msYield[k], msAsked[k]:
\* the features batch k gave and the upstream requests it issued; msOut:
\* what the call returned.
VARIABLES msPc, msWorld, msZ, msTried, msYield, msAsked, msOut

msVars == <<msPc, msWorld, msZ, msTried, msYield, msAsked, msOut>>

MsWorlds == {"jammed", "absolute_only", "sparse", "empty"}

MsInit ==
  /\ now = 0
  /\ cache \in {NewCache(FALSE), NewCache(TRUE)}
  /\ settings \in {[traffic |-> "'KEY'", maps |-> ""], [traffic |-> " '' ", maps |-> ""]}
  /\ msPc = "call"
  /\ msWorld \in MsWorlds
  /\ msZ \in {13, 14}
  /\ msTried = <<>>
  /\ msYield = <<>>
  /\ msAsked = <<>>
  /\ msOut = [features |-> <<>>, style |-> ""]

\* The loop body after the batch of a style: "if feats: return feats, style",
\* and after the last style "return [], styles[-1]".
MsAfterBatch(r, style) ==
  /\ cache' = r.cache
  /\ msTried' = Append(msTried, style)
  /\ msYield' = Append(msYield, Len(r.features))
  /\ msAsked' = Append(msAsked, r.calls)
  /\ IF StyleWins(r.features) \/ Len(msTried) + 1 = Len(Styles)
     THEN /\ msPc' = "returned"
          /\ msOut' = [features |-> r.features, style |-> style]
     ELSE UNCHANGED <<msPc, msOut>>

\* feats = await self._fetch_decode_tiles_with_style(tiles, z, style), for
\* the next style of the list; the upstream answers the batch or is down.
MsBatch ==
  /\ msPc = "call"
  /\ Len(msTried) < Len(Styles)
  /\ \E up \in BOOLEAN, redisOk \in RedisOutcomes(cache) :
       MsAfterBatch(
         FetchDecodeTilesWithStyle(cache, 0, TilesForBbox(BangaloreBBox, msZ), msZ,
                                   Styles[Len(msTried) + 1],
                                   [world |-> msWorld, up |-> up, redisOk |-> redisOk,
                                    t |-> now, hasKey |-> HasApiKey(settings)]),
         Styles[Len(msTried) + 1])
  /\ UNCHANGED <<msWorld, msZ, now, settings>>

MsIdle == /\ msPc = "idle" /\ msWorld = "" /\ msZ = 0 /\ msTried = <<>>
          /\ msYield = <<>> /\ msAsked = <<>> /\ msOut = [features |-> <<>>, style |-> ""]


\* ===================================================== concurrent requests
\* Three calls of get_live_chokepoints in flight at once on one event loop,
\* each on a LiveChokepointService of its own (api/traffic.py builds one per
\* request) and all on the one shared Cache: requests 1 and 2 are identical,
\* request 3 differs in jf_min. A step runs a request from one await to the
\* next; the steps of the requests interleave freely. prSamples, prIncidents
\* and prResult hold each request's local variables, prLast the request
\* whose result-cache write came last (0: none yet).
VARIABLES prPc, prSamples, prIncidents, prResult, prLast

prVars == <<prPc, prSamples, prIncidents, prResult, prLast>>

PrReqs == {1, 2, 3}

PrParams(r) ==
  IF r = 3 THEN Params(13, 150, 1, 0, 100, FALSE)
  ELSE Params(13, 150, 1, 400, 100, FALSE)

PrInit ==
  /\ now = 0
  /\ cache \in {NewCache(FALSE), NewCache(TRUE)}
  /\ settings = [traffic |-> "'KEY'", maps |-> ""]
  /\ prPc = [r \in PrReqs |-> "call"]
  /\ prSamples = [r \in PrReqs |-> <<>>]
  /\ prIncidents = [r \in PrReqs |-> <<>>]
  /\ prResult = [r \in PrReqs |-> [clusters |-> <<>>]]
  /\ prLast = 0

\* cached = await self._aget_cache(cache_key); if cached: return cached
PrAfterLookup(r, got) ==
  /\ prPc' = [prPc EXCEPT ![r] = IF got.hit THEN "returned" ELSE "tiles"]
  /\ prResult' = [prResult EXCEPT ![r] = IF got.hit THEN got.v ELSE @]

PrLookup(r) ==
  /\ prPc[r] = "call"
  /\ \E redisOk \in RedisOutcomes(cache) :
       /\ PrAfterLookup(r, CacheGet(cache, ResultKey(PrParams(r)), now, redisOk))
       /\ cache' = CacheAfterGet(cache, ResultKey(PrParams(r)), now, redisOk)
  /\ UNCHANGED <<prSamples, prIncidents, prLast, now, settings>>

\* What steps 1 to 3 leave behind.
PrAfterTiles(r, t) ==
  /\ cache' = t.round.cache
  /\ prSamples' = [prSamples EXCEPT ![r] = t.round.samples]
  /\ prPc' = [prPc EXCEPT ![r] = IF t.round.samples = <<>> THEN "probe"
                                 ELSE "incidents"]

\* Steps 1 to 3; the upstream answers this request's tile fetches or not.
PrTiles(r) ==
  /\ prPc[r] = "tiles"
  /\ \E up \in BOOLEAN :
       PrAfterTiles(r, TileRounds(cache, PrParams(r),
                                  [world |-> "jammed", up |-> up, redisOk |-> TRUE,
                                   t |-> now, hasKey |-> HasApiKey(settings)]))
  /\ UNCHANGED <<prIncidents, prResult, prLast, now, settings>>

\* if not samples: samples = await self._collect_flow_segment_samples(...)
PrProbe(r) ==
  /\ prPc[r] = "probe"
  /\ \E resp \in RqProbeResps :
       prSamples' = [prSamples EXCEPT ![r] =
                       CollectFlowSegmentSamples(HasApiKey(settings), ExGridPoints,
                                                 [i \in 1..MaxProbes |-> resp])]
  /\ prPc' = [prPc EXCEPT ![r] = "incidents"]
  /\ UNCHANGED <<prIncidents, prResult, prLast, envVars>>

\* Step 4: the incidents, and the boost of the request's own samples.
PrIncidents(r) ==
  /\ prPc[r] = "incidents"
  /\ \E incs \in SeqsUpTo(RqIncidentSet, 1) :
       /\ prIncidents' = [prIncidents EXCEPT ![r] = incs]
       /\ prSamples' = [prSamples EXCEPT ![r] =
                          IF incs # <<>>
                          THEN BoostSamplesWithIncidents(@, incs,
                                                         PrParams(r).incident_radius_m)
                          ELSE @]
  /\ prPc' = [prPc EXCEPT ![r] = "cluster"]
  /\ UNCHANGED <<prResult, prLast, envVars>>

\* What steps 6 and 7 leave behind.
PrStore(r, result, redisOk) ==
  /\ prResult' = [prResult EXCEPT ![r] = result]
  /\ cache' = CacheAfterSet(cache, ResultKey(PrParams(r)), result, ResultTTL, now,
                            redisOk)

\* Steps 5 to 7 (without reverse geocoding nothing awaits between them).
PrFinish(r) ==
  /\ prPc[r] = "cluster"
  /\ \E redisOk \in RedisOutcomes(cache) :
       PrStore(r,
               AggregateAndScore(
                 ClusterSamples(prSamples[r], PrParams(r).eps_m, PrParams(r).min_samples),
                 prIncidents[r],
                 Max2(PrParams(r).incident_radius_m, MinIncidentCountRadius),
                 NoNames(ClusterSamples(prSamples[r], PrParams(r).eps_m,
                                        PrParams(r).min_samples))),
               redisOk)
  /\ prLast' = r
  /\ prPc' = [prPc EXCEPT ![r] = "returned"]
  /\ UNCHANGED <<prSamples, prIncidents, now, settings>>

PrIdle == /\ prPc = <<>> /\ prSamples = <<>> /\ prIncidents = <<>>
          /\ prResult = <<>> /\ prLast = 0


vars == <<exVars, stVars, envVars, tbVars, rqVars, ldVars, cvVars, inVars, cnVars, chVars, msVars, prVars>>

\* What each machine leaves alone: the other machines' variables.
ExFrame == UNCHANGED <<stVars, envVars, tbVars, rqVars, ldVars, cvVars, inVars, cnVars, chVars, msVars, prVars>>
StFrame == UNCHANGED <<exVars, envVars, tbVars, rqVars, ldVars, cvVars, inVars, cnVars, chVars, msVars, prVars>>
TbFrame == UNCHANGED <<exVars, stVars, rqVars, ldVars, cvVars, inVars, cnVars, chVars, msVars, prVars>>
RqFrame == UNCHANGED <<exVars, stVars, tbVars, ldVars, cvVars, inVars, cnVars, chVars, msVars, prVars>>
LdFrame == UNCHANGED <<exVars, stVars, tbVars, rqVars, cvVars, inVars, cnVars, chVars, msVars, prVars>>
CvFrame == UNCHANGED <<exVars, stVars, envVars, tbVars, rqVars, ldVars, inVars, cnVars, chVars, msVars, prVars>>
InFrame == UNCHANGED <<exVars, stVars, tbVars, rqVars, ldVars, cvVars, cnVars, chVars, msVars, prVars>>
CnFrame == UNCHANGED <<exVars, stVars, tbVars, rqVars, ldVars, cvVars, inVars, chVars, msVars, prVars>>
ChFrame == UNCHANGED <<exVars, stVars, tbVars, rqVars, ldVars, cvVars, inVars, cnVars, msVars, prVars>>
MsFrame == UNCHANGED <<exVars, stVars, tbVars, rqVars, ldVars, cvVars, inVars, cnVars, chVars, prVars>>
PrFrame == UNCHANGED <<exVars, stVars, tbVars, rqVars, ldVars, cvVars, inVars, cnVars, chVars, msVars>>

InitExtract == ExInit /\ StIdle /\ EnvIdle /\ TbIdle /\ RqIdle /\ LdIdle /\ CvIdle /\ InIdle /\ CnIdle /\ ChIdle /\ MsIdle /\ PrIdle
NextExtract ==
  \/ ExExtract /\ ExFrame
  \/ ExProbe /\ ExFrame
SpecExtract == InitExtract /\ [][NextExtract]_vars

InitStages == StInit /\ ExIdle /\ EnvIdle /\ TbIdle /\ RqIdle /\ LdIdle /\ CvIdle /\ InIdle /\ CnIdle /\ ChIdle /\ MsIdle /\ PrIdle
NextStages ==
  \/ StBoost /\ StFrame
  \/ StCluster /\ StFrame
  \/ StAggregate /\ StFrame
SpecStages == InitStages /\ [][NextStages]_vars

InitTiles == TbInit /\ ExIdle /\ StIdle /\ RqIdle /\ LdIdle /\ CvIdle /\ InIdle /\ CnIdle /\ ChIdle /\ MsIdle /\ PrIdle
NextTiles ==
  \/ TbNoKey /\ TbFrame
  \/ TbStart /\ TbFrame
  \/ (\E i \in 1..Len(tbTiles) : TbAcquire(i)) /\ TbFrame
  \/ (\E i \in 1..Len(tbTiles) : TbRespond(i)) /\ TbFrame
  \/ TbJoin /\ TbFrame
  \/ TbTick /\ TbFrame
  \/ TbAgain /\ TbFrame
SpecTiles == InitTiles /\ [][NextTiles]_vars

Init == RqInit /\ ExIdle /\ StIdle /\ TbIdle /\ LdIdle /\ CvIdle /\ InIdle /\ CnIdle /\ ChIdle /\ MsIdle /\ PrIdle
Next == \/ RqCall /\ RqFrame
        \/ RqTiles /\ RqFrame
        \/ RqProbe /\ RqFrame
        \/ RqIncidents /\ RqFrame
        \/ RqFinish /\ RqFrame
        \/ RqDone /\ RqFrame
        \/ RqTick /\ RqFrame
Spec == Init /\ [][Next]_vars

InitLadder == LdInit /\ ExIdle /\ StIdle /\ TbIdle /\ RqIdle /\ CvIdle /\ InIdle /\ CnIdle /\ ChIdle /\ MsIdle /\ PrIdle
NextLadder ==
  \/ LdTiles /\ LdFrame
  \/ LdProbe /\ LdFrame
  \/ LdIncidents /\ LdFrame
  \/ LdFinish /\ LdFrame
SpecLadder == InitLadder /\ [][NextLadder]_vars

InitCoverage == CvInit /\ ExIdle /\ StIdle /\ EnvIdle /\ TbIdle /\ RqIdle /\ LdIdle /\ InIdle /\ CnIdle /\ ChIdle /\ MsIdle /\ PrIdle
NextCoverage ==
  \/ CvLive /\ CvFrame
  \/ CvProbe /\ CvFrame
SpecCoverage == InitCoverage /\ [][NextCoverage]_vars

InitIncidents == InInit /\ ExIdle /\ StIdle /\ TbIdle /\ RqIdle /\ LdIdle /\ CvIdle /\ CnIdle /\ ChIdle /\ MsIdle /\ PrIdle
NextIncidents ==
  \/ InSplit /\ InFrame
  \/ \E i \in 1..Len(inSubs) : InRespond(i) /\ InFrame
  \/ InReturn /\ InFrame
SpecIncidents == InitIncidents /\ [][NextIncidents]_vars

InitCancel == CnInit /\ ExIdle /\ StIdle /\ TbIdle /\ RqIdle /\ LdIdle /\ CvIdle /\ InIdle /\ ChIdle /\ MsIdle /\ PrIdle
NextCancel ==
  \/ CnBegin /\ CnFrame
  \/ \E i \in 1..Len(cnTask) : CnStart(i) /\ CnFrame
  \/ \E i \in 1..Len(cnTask) : CnRespond(i) /\ CnFrame
  \/ CnJoin /\ CnFrame
  \/ CnCancel /\ CnFrame
SpecCancel == InitCancel /\ [][NextCancel]_vars

InitCache == ChInit /\ ExIdle /\ StIdle /\ TbIdle /\ RqIdle /\ LdIdle /\ CvIdle /\ InIdle /\ CnIdle /\ MsIdle /\ PrIdle
NextCache ==
  \/ (\E k \in ChKeys, v \in ChValues, ok \in RedisOutcomes(cache) : ChSet(k, v, ok)) /\ ChFrame
  \/ (\E k \in ChKeys, ok \in RedisOutcomes(cache) : ChGet(k, ok)) /\ ChFrame
  \/ ChTick /\ ChFrame
SpecCache == InitCache /\ [][NextCache]_vars

InitStyles == MsInit /\ ExIdle /\ StIdle /\ TbIdle /\ RqIdle /\ LdIdle /\ CvIdle /\ InIdle /\ CnIdle /\ ChIdle /\ PrIdle
NextStyles ==
  \/ MsBatch /\ MsFrame
SpecStyles == InitStyles /\ [][NextStyles]_vars

InitPair == PrInit /\ ExIdle /\ StIdle /\ TbIdle /\ RqIdle /\ LdIdle /\ CvIdle /\ InIdle /\ CnIdle /\ ChIdle /\ MsIdle
NextPair ==
  \/ (\E r \in PrReqs : PrLookup(r)) /\ PrFrame
  \/ (\E r \in PrReqs : PrTiles(r)) /\ PrFrame
  \/ (\E r \in PrReqs : PrProbe(r)) /\ PrFrame
  \/ (\E r \in PrReqs : PrIncidents(r)) /\ PrFrame
  \/ (\E r \in PrReqs : PrFinish(r)) /\ PrFrame
SpecPair == InitPair /\ [][NextPair]_vars

\* ================================================================== claims
\* ---------------------------------------------------------------- C1
\* C1: a call that follows a completed call with the same cache key (bbox to
\* 5 decimals, z, eps_m, min_samples, jf_min, incident_radius_m,
\* include_geocode), made before 60 s have passed since that call computed
\* and stored its result, issues no upstream request, executes no pipeline
\* stage and returns the same result.
C1_SecondCallServedFromCache ==
  (/\ rqPc = "returned"
   /\ rqPrev.valid /\ rqPrev.outcome = "ok" /\ rqPrev.ran
   /\ rqPrev.key = ResultKey(rqParams)
   /\ rqStart - rqPrev.at < ResultTTL)
  => (rqCalls = 0 /\ rqStages = {} /\ rqResult = rqPrev.result)

\* ---------------------------------------------------------------- C2
\* C2: without a credential (traffic and maps keys both empty once cleaned)
\* a request ends in a server-side error, never in a returned result.
C2_NoCredentialIsServerError ==
  (rqPc \in {"returned", "failed"} /\ ~HasApiKey(settings))
  => rqOutcome = "error500"

\* ---------------------------------------------------------------- C3
\* C3: the result cache holds an entry under a request key only where the
\* requests have a credential and the capabilities.
C3_ResultCacheOnlyFromConfigured ==
  \A p \in RqParamSet :
    ResultKey(p) \in (DOMAIN cache.r) \cup (DOMAIN cache.m)
      => (HasApiKey(settings) /\ rqCaps)

\* ---------------------------------------------------------------- C4
\* The decoded features of tile i of the batch, as the upstream holds them.
TbWorldFeatures(i) ==
  DecodedFeatures(Decoded(tbTiles[i][1], tbTiles[i][2], tbZ,
                          WorldLayers(tbWorld, tbTiles[i][1], tbTiles[i][2])))

\* C4: in one tile batch no per-tile failure raises out of the batch, a tile
\* whose request ended with another status than 200 or with an exception has
\* no decoded tile, and the batch returns exactly the features of the tiles
\* that did not fail, in tile order, whichever tiles fail.
C4_TileFailureNeverFailsBatch ==
  /\ tbPc # "raised"
  /\ \A i \in 1..Len(tbTiles) : tbFailed[i] => tbOut[i] = NoTile
  /\ (tbPc = "joined" /\ HasApiKey(settings)) =>
       tbFeatures = Flatten([i \in 1..Len(tbTiles) |->
                               IF tbFailed[i] THEN <<>> ELSE TbWorldFeatures(i)])

\* C4's case: a joined batch in which a request got another status, another
\* raised, a third succeeded, and features came back.
C4_MixedBatchJoined ==
  /\ tbPc = "joined"
  /\ tbKinds = {"http_error", "exception"}
  /\ \E i \in 1..Len(tbTiles) : ~tbFailed[i] /\ tbOut[i] # NoTile
  /\ tbFeatures # <<>>

\* ---------------------------------------------------------------- C5
\* C5: at every moment of a tile batch at most 8 tile requests are in flight.
C5_AtMostEightInFlight == Cardinality(TbInFlight) <= SemLimit

\* C5's case: 8 requests in flight while a further task waits for a permit.
C5_SemaphoreFull ==
  /\ Cardinality(TbInFlight) = SemLimit
  /\ \E i \in 1..Len(tbTiles) : tbTask[i] = "waiting"

\* ---------------------------------------------------------------- C6
\* The clamped weights of the samples within eps_m of sample p, over all the
\* samples handed to the clusterer.
C6_WeightAround(p) ==
  SumSeq([j \in 1..Len(stSamples) |->
            IF Within(p.lat - stSamples[j].lat, p.lon - stSamples[j].lon, stEpsM)
            THEN Max2(0, stSamples[j].weight) ELSE 0])

\* C6 as stated: every cluster of a result has count >= min_samples.
C6_CountAtLeastMinSamples ==
  stPc = "done" =>
    \A k \in 1..Len(stResult.clusters) : stResult.clusters[k].count >= stMinSamples

\* C6 as the code has it: every cluster the clusterer returns has a core
\* member, one around which the weights within eps_m sum to min_samples or
\* more; the number of members can be smaller than min_samples.
C6_ClusterHasCoreMember ==
  stPc \in {"clustered", "done"} =>
    \A k \in 1..Len(stClusters) :
      /\ Len(stClusters[k]) >= 1
      /\ \E m \in 1..Len(stClusters[k]) :
           C6_WeightAround(stClusters[k][m]) >= stMinSamples * 1000 * WDen

\* C6's case: a reported cluster with fewer members than min_samples, its
\* weight raised by incident boosts.
C6_BoostedSmallCluster ==
  /\ stPc = "done"
  /\ stSamples # stInput
  /\ \E k \in 1..Len(stResult.clusters) : stResult.clusters[k].count < stMinSamples

\* ---------------------------------------------------------------- C7
\* C7: every sample the extractor or the grid probe produces has
\* 0 <= severity <= 1 and weight > 0, for every jf_min in [0, 10].
C7_SamplesPositiveWeight ==
  exPc \in {"extracted", "probed"} =>
    \A i \in 1..Len(exSamples) :
      /\ 0 <= exSamples[i].severity /\ exSamples[i].severity <= 1000
      /\ exSamples[i].weight > 0

\* ---------------------------------------------------------------- C8
\* C8: in every result the cluster at position i (from 0) of the sorted
\* list has id cp_i, and clusters of equal score keep their insertion order.
C8_IdsFollowSortedPosition ==
  stPc = "done" =>
    /\ \A i \in 1..Len(stResult.clusters) : stResult.clusters[i].id = i - 1
    /\ \A i, j \in 1..Len(stResult.clusters) :
         (i < j /\ stResult.clusters[i].score = stResult.clusters[j].score)
           => stResult.clusters[i].id < stResult.clusters[j].id

\* ---------------------------------------------------------------- C9
\* C9: in every result the clusters are in non-increasing order of score and
\* every score is in [0, 100] (kept * 10).
C9_SortedScoresInRange ==
  stPc = "done" =>
    /\ \A i \in 1..Len(stResult.clusters) :
         0 <= stResult.clusters[i].score /\ stResult.clusters[i].score <= 1000
    /\ \A i \in 1..(Len(stResult.clusters) - 1) :
         stResult.clusters[i].score >= stResult.clusters[i + 1].score

\* C9's case: a result of two or more clusters that the sort reordered.
C9_SortReordered ==
  /\ stPc = "done"
  /\ Len(stResult.clusters) >= 2
  /\ stResult.clusters[1].id > stResult.clusters[2].id
  /\ stResult.clusters[1].score > stResult.clusters[2].score

\* ---------------------------------------------------------------- C10
\* C10: when the relative style gave no features and the absolute style one
\* feature of jam 5, the returned result reports style_used = absolute and
\* holds one cluster.
C10_ResultReportsAbsoluteStyle ==
  (/\ rqPc = "returned" /\ rqStages # {}
   /\ rqWorld = "absolute_only" /\ rqStyle = "absolute")
  => /\ "style_used" \in DOMAIN rqResult
     /\ rqResult.style_used = "absolute"
     /\ Len(rqResult.clusters) = 1

\* ---------------------------------------------------------------- C11
\* C11: one tile (z = 13, x = 7439, y = 4167) holding one LineString of jam 8
\* from tile-local (1024, 1024) to (3072, 3072), no incidents, jf_min = 4,
\* eps_m = 150, min_samples = 1: the result holds exactly one cluster, of
\* severity_mean 0.8 to within 0.001, centred on the projection of tile-local
\* (2048, 2048) (centre in decimetres).
C11_SingleTileSingleCluster ==
  (/\ ldPc = "returned"
   /\ ldParams = ParamsAt(SingleTileBBox, 13, 150, 1, 400, 100)
   /\ ldWorld = "single" /\ ldUp /\ HasApiKey(settings)
   /\ ldIncidents = <<>>)
  => /\ Len(ldResult.clusters) = 1
     /\ Abs(ldResult.clusters[1].severity_mean - 800) <= 1
     /\ ldResult.clusters[1].center.lat
          = 10 * TilePointToLonLatFrom(7439, 4167, 7439, 4167, 13, 2048, 2048, 4096).lat
     /\ ldResult.clusters[1].center.lon
          = 10 * TilePointToLonLatFrom(7439, 4167, 7439, 4167, 13, 2048, 2048, 4096).lon

\* ---------------------------------------------------------------- C12
\* C12: two samples of severity 0.5 lying 100 m apart, one incident point at
\* the first of them, incident_radius_m = 150: after the boost the first
\* sample has weight 0.75, and the centre of their cluster lies strictly
\* closer to the first sample than to the second (centre in decimetres).
C12_CentroidShiftsToIncident ==
  (/\ stPc = "done"
   /\ stInput = <<StSample(0, 500, 100), StSample(100, 500, 100)>>
   /\ stIncidents = <<Incident("a", "Point", <<[lon |-> 0, lat |-> 0]>>, TRUE)>>
   /\ stRadius = 150 /\ stMinSamples = 1)
  => /\ stSamples[1].weight = 750 * WDen
     /\ Len(stResult.clusters) = 1
     /\ Abs(stResult.clusters[1].center.lat - 0)
          < Abs(stResult.clusters[1].center.lat - 1000)

\* ---------------------------------------------------------------- C13
\* The steps of the log that extract samples from tile features.
C13_TileSteps == {"jfmin", "relax2", "relax05", "zoom13", "zoom14"}

C14_FetchZoomAtLeastTwelve ==
  cvPc = "live" => cvZoom >= MinZoom

\* ---------------------------------------------------------------- C15
\* C15: the tile list handed to the first tile fetch holds at most 16 tiles
\* on the live path and at most 32 on the probe path, for every bbox and
\* every requested z.
C15_FirstFetchWithinTileCap ==
  /\ cvPc = "live" => cvTiles <= MaxTilesLive
  /\ cvPc = "probe" => cvTiles <= MaxTilesProbe

\* ---------------------------------------------------------------- C16
\* The incidents the sub-calls returned, in sub-bbox order.
C16_All == Flatten(inResults)

\* The incidents of a list without an id the deduplication can use.
C16_IdLess(incs) == SelectFrom(incs, [k \in 1..Len(incs) |-> ~Truthy(incs[k].id)], 1)

C16_Count(incs, id) == Cardinality({k \in 1..Len(incs) : incs[k].id = id})

\* Position of the first incident of the list with this id.
C16_First(incs, id) == CHOOSE k \in 1..Len(incs) :
                         incs[k].id = id /\ \A j \in 1..(k - 1) : incs[j].id # id

\* C16 as stated: after a merge of several sub-bbox responses the list holds
\* at most one incident per id that is not null.
C16_OnePerNonNullId ==
  (inPc = "returned" /\ Len(inSubs) > 1) =>
    \A k \in 1..Len(inOut) :
      inOut[k].id # MissingV => C16_Count(inOut, inOut[k].id) = 1

\* C16, amended: after a merge of several sub-bbox responses the list holds
\* exactly one incident (the first returned) per id that is true in Python
\* (not None, not "", not 0) among the ids returned; the incidents without
\* such an id are all there, unchanged and in order; nothing else is there.
C16_OnePerTruthyId ==
  (inPc = "returned" /\ Len(inSubs) > 1) =>
    /\ \A j \in 1..Len(C16_All) :
         Truthy(C16_All[j].id) =>
           /\ C16_Count(inOut, C16_All[j].id) = 1
           /\ \E k \in 1..Len(inOut) :
                inOut[k] = C16_All[C16_First(C16_All, C16_All[j].id)]
    /\ C16_IdLess(inOut) = C16_IdLess(C16_All)
    /\ \A k \in 1..Len(inOut) : \E j \in 1..Len(C16_All) : inOut[k] = C16_All[j]

\* A merge in which two sub-calls returned an incident of the same id, and
\* a sub-call returned incidents without an id.
C16_SharedIdMergedOnce ==
  /\ inPc = "returned" /\ Len(inSubs) > 1
  /\ \E i, j \in 1..Len(inSubs) :
       /\ i # j
       /\ \E a \in 1..Len(inResults[i]), b \in 1..Len(inResults[j]) :
            /\ inResults[i][a].id = StrV("a") /\ inResults[j][b].id = StrV("a")
            /\ inResults[i][a].tag # inResults[j][b].tag
  /\ C16_Count(inOut, StrV("a")) = 1
  /\ C16_Count(inOut, MissingV) = 2

\* ---------------------------------------------------------------- C17
\* C17: a bbox of computed area above 8000 km2 is fetched by at least two
\* sub-bbox calls, each for a sub-bbox of computed area at most 8000 km2 (the
\* split has ended); a bbox of at most 8000 km2 is fetched by exactly one
\* call, for the bbox itself. With a credential every call issues one request.
C17_SplitUntilSmall ==
  inPc \in {"run", "returned"} =>
    /\ \A i \in 1..Len(inSubs) : CalculateBboxAreaKm2(inSubs[i]) <= MaxAreaKm2
    /\ CalculateBboxAreaKm2(inBBox) > MaxAreaKm2 => Len(inSubs) >= 2
    /\ CalculateBboxAreaKm2(inBBox) <= MaxAreaKm2 => inSubs = <<inBBox>>
    /\ inHttp <= Len(inSubs)
    /\ (inPc = "returned" /\ HasApiKey(settings)) => inHttp = Len(inSubs)

\* A bbox of two square degrees, fetched by four requests of a quarter each.
C17_FourQuarters ==
  /\ inPc = "returned"
  /\ CalculateBboxAreaKm2(inBBox) > 2 * MaxAreaKm2
  /\ Len(inSubs) = 4 /\ inHttp = 4
  /\ inSubs[1] = <<77000, 12000, 77500, 13000>>

\* ---------------------------------------------------------------- C18
\* C18: once the request is cancelled, no subtask of it is still in its
\* request, the request has left get_live_chokepoints with CancelledError
\* and without a result, the cache is what it was at the cancellation, and
\* it holds no result-cache entry of the request.
C18_CancelStopsEverything ==
  cnCancelled =>
    /\ cnPc = "cancelled" /\ cnOut = "cancelled"
    /\ \A i \in 1..Len(cnTask) : cnTask[i] \in {"done", "aborted", "dropped"}
    /\ cache = cnSnap
    /\ ResultKey(CnParams(cnGeo)) \notin DOMAIN cache.m

\* A request cancelled in the tile round with one tile already cached, one
\* request in flight.
C18_CancelledWithTileInFlight ==
  /\ cnPc = "cancelled" /\ cnAt = "tile"
  /\ cnTask = <<"done", "aborted">>
  /\ cnOk[1]
  /\ TileKey("relative", 13, CnTiles[1]) \in DOMAIN cache.m

\* ---------------------------------------------------------------- C19
\* C19: for every cluster of a result, severity_peak (the p90 of the
\* unweighted severities) is at least severity_mean (the weighted mean), to
\* within 0.001.
C19_PeakAtLeastMean ==
  stPc = "done" =>
    \A k \in 1..Len(stResult.clusters) :
      stResult.clusters[k].severity_peak + 1 >= stResult.clusters[k].severity_mean

\* ---------------------------------------------------------------- C20
\* The place of a step in the ladder.
C20_Rank(name) ==
  CASE name = "tiles" -> 0
    [] name = "jfmin" -> 1
    [] name = "relax2" -> 2
    [] name = "relax05" -> 3
    [] name \in {"zoom13", "skip13"} -> 4
    [] name \in {"zoom14", "skip14"} -> 5
    [] name = "probe" -> 6

\* The steps that produce samples.
C20_SampleSteps == {"jfmin", "relax2", "relax05", "zoom13", "zoom14", "probe"}

\* C20: the steps of a request run in the fixed order jf_min, 2.0, 0.5,
\* zoom 13, zoom 14, grid probe; a step runs only when every earlier step
\* produced zero samples; the higher zooms are tried only after the
\* extraction at 0.5 gave nothing and the fetch zoom is below 14, a zoom of
\* more than 32 tiles is left out, and the probe runs only when every
\* tile-based step gave nothing.
C20_LadderInFixedOrder ==
  \A k \in 1..Len(ldSteps) :
    /\ k > 1 => C20_Rank(ldSteps[k - 1].step) < C20_Rank(ldSteps[k].step)
    /\ ldSteps[k].step \in C20_SampleSteps =>
         \A j \in 1..(k - 1) :
           ldSteps[j].step \in C20_SampleSteps => ldSteps[j].n = 0
    /\ C20_Rank(ldSteps[k].step) \in {4, 5} =>
         /\ ldSteps[1].z < 14
         /\ ldSteps[k].z > ldSteps[1].z
         /\ \E j \in 1..(k - 1) : ldSteps[j].step = "relax05"
    /\ ldSteps[k].step \in {"skip13", "skip14"} => ldSteps[k].tiles > MaxTilesAlt
    /\ ldSteps[k].step \in {"zoom13", "zoom14"} => ldSteps[k].tiles <= MaxTilesAlt
    /\ ldSteps[k].step = "probe" =>
         /\ \E j \in 1..(k - 1) : ldSteps[j].step = "relax05"
         /\ ldSamples = <<>> \/ ldSteps[k].n > 0

\* A request that went down the whole ladder: nothing at jf_min, 2.0 and
\* 0.5, a fetch at zoom 13, zoom 14 left out for its tile count, the probe.
C20_WholeLadderRun ==
  /\ ldPc = "returned"
  /\ Len(ldSteps) = 7
  /\ ldSteps[2].step = "jfmin" /\ ldSteps[3].step = "relax2"
  /\ ldSteps[4].step = "relax05"
  /\ ldSteps[5].step = "zoom13" /\ ldSteps[6].step = "skip14"
  /\ ldSteps[7].step = "probe" /\ ldSteps[7].n > 0

\* ------------------------------------------------------------------- C24
\* C24: a Point-geometry feature that resolves a jam value at or above the
\* threshold yields exactly one sample, placed at the projection of that
\* point; the extractor does not skip Point features.
C24_PointFeatureYieldsSample ==
  ( /\ exPc = "extracted"
    /\ Len(exFeatures) = 1
    /\ exFeatures[1].geom.shape = "Point"
    /\ ResolveJam(exFeatures[1].props).some
    /\ ResolveJam(exFeatures[1].props).jam >= exJfMin )
  => /\ Len(exSamples) = 1
     /\ LET f == exFeatures[1]
            ll == TilePointToLonLatFrom(0, 0, f.x, f.y, f.z, f.geom.coords[1],
                                        f.geom.coords[2], f.extent)
        IN exSamples[1].lat = ll.lat /\ exSamples[1].lon = ll.lon

\* ------------------------------------------------------------------- C25
\* The features of the input that resolve a jam value and have a
\* representative point, i.e. those only the threshold can drop.
C25_Candidates ==
  {i \in 1..Len(exFeatures) :
     ResolveJam(exFeatures[i].props).some /\ HasRepPoint(exFeatures[i].geom)}

\* C25: the extractor drops a candidate feature exactly when
\* severity * 10 < jfMin with severity = min(max(jam, 0), 10) / 10, so the
\* samples are those of the candidates whose clamped jam reaches jfMin, and
\* every emitted sample satisfies severity * 10 >= jfMin.
C25_DropsExactlyBelowClampedSeverity ==
  exPc = "extracted" =>
    /\ Len(exSamples) =
         Cardinality({i \in C25_Candidates :
            SeverityOfJam(ResolveJam(exFeatures[i].props).jam) >= exJfMin})
    /\ \A k \in 1..Len(exSamples) : exSamples[k].severity >= exJfMin

\* ------------------------------------------------------------------- C26
RECURSIVE C26_Pow3(_)
C26_Pow3(n) == IF n <= 0 THEN 1 ELSE 3 * C26_Pow3(n - 1)

\* The number of incident points within stRadius of a sample.
C26_Contacts(s) ==
  Cardinality({j \in 1..Len(IterIncidentPoints(stIncidents)) :
     HaversineWithin(s.lat, s.lon, IterIncidentPoints(stIncidents)[j].lat,
                     IterIncidentPoints(stIncidents)[j].lon, stRadius)})

\* C26: the boost multiplies a sample's weight by 1.5 once per incident
\* point within the radius (1.5^k for k such points, unchanged for k = 0)
\* and changes neither lat, lon, severity nor the number of samples.
C26_BoostIsPowerOfContacts ==
  stPc = "boosted" =>
    /\ Len(stSamples) = Len(stInput)
    /\ \A i \in 1..Len(stSamples) :
         /\ stSamples[i].lat = stInput[i].lat
         /\ stSamples[i].lon = stInput[i].lon
         /\ stSamples[i].severity = stInput[i].severity
         /\ stSamples[i].weight * Pow2(C26_Contacts(stInput[i]))
              = stInput[i].weight * C26_Pow3(C26_Contacts(stInput[i]))

\* A boosted list in which one sample touched two incident points (factor
\* 2.25) and another none.
C26_DoubleBoost ==
  /\ stPc = "boosted"
  /\ \E i, j \in 1..Len(stSamples) :
       /\ C26_Contacts(stInput[i]) = 2
       /\ stInput[i].weight > 0
       /\ 4 * stSamples[i].weight = 9 * stInput[i].weight
       /\ C26_Contacts(stInput[j]) = 0
       /\ stSamples[j].weight = stInput[j].weight

\* ------------------------------------------------------------------- C29
\* C29: once set(k, v, ttl) has returned, a get(k) before the ttl has
\* elapsed and with no set in between returns v, whatever the backend does
\* (Redis configured and its write failing included), and get never
\* returns a value whose ttl has elapsed.
C29_GetReturnsLastSet ==
  chGot.valid =>
    /\ ( chWrote[chGot.k].set
         /\ chGot.at < chWrote[chGot.k].at + chWrote[chGot.k].ttl )
       => chGot.res = Hit(chWrote[chGot.k].v)
    /\ chGot.res.hit =>
         /\ chWrote[chGot.k].set
         /\ chGot.at <= chWrote[chGot.k].at + chWrote[chGot.k].ttl

\* ------------------------------------------------------------------- C23
\* The tasks of the running batch that went upstream (or wait to do so).
C23_Upstream == {i \in 1..Len(tbTiles) : tbTask[i] \in {"waiting", "inflight"}}

\* C23: a tile (style, z, x, y) fetched and decoded successfully less than
\* 60 s earlier is returned from the tile cache with no upstream request; a
\* cached entry is returned only for its own key; and a tile whose fetch
\* never succeeded has no entry in the tile cache.
C23_FreshTileServedFromCache ==
  /\ \A i \in C23_Upstream :
       ~(tbFetchedAt[i] >= 0 /\ now - tbFetchedAt[i] < TileTTL)
  /\ \A i \in 1..Len(tbTiles) :
       (tbTask[i] = "done" /\ tbOut[i] # NoTile) =>
         /\ tbOut[i].x = tbTiles[i][1] /\ tbOut[i].y = tbTiles[i][2]
         /\ tbOut[i].z = tbZ
  /\ \A i \in 1..Len(tbTiles) :
       tbFetchedAt[i] < 0 =>
         TileKey(tbStyle, tbZ, tbTiles[i]) \notin (DOMAIN cache.r) \cup (DOMAIN cache.m)

\* ------------------------------------------------------------------- C22
\* C22: while _fetch_incidents fans out over the sub-bboxes of a split, at
\* most 8 incident requests are in flight at any moment, however many
\* sub-bboxes the split produced.
C22_AtMostEightIncidentRequests == Cardinality(InInFlight) <= SemLimit

\* ------------------------------------------------------------------- C27
\* C27: no upstream failure of an incident request (another status than
\* 200, a transport error or timeout, a JSON body of unexpected shape)
\* raises out of _fetch_incidents, with one sub-bbox or several; the call
\* returns the incidents of the sub-calls that succeeded.
C27_IncidentFailureNeverRaises ==
  /\ inPc # "raised"
  /\ inPc = "returned" => inOut = MergedIncidents(inResults)

\* ------------------------------------------------------------------- C21
\* The styles the tile cache holds a tile of.
C21_CachedStyles ==
  {k[2] : k \in (DOMAIN cache.m) \cup (DOMAIN cache.r)}

\* C21: _fetch_decode_tiles_multi runs the style batches in the order
\* relative, absolute, relative-delay, relative-categorized; it returns the
\* features and the name of the first style whose batch gave at least one
\* feature (of the last style when none did); and once a style has given
\* features no batch, request or cached tile of a later style exists.
C21_StylesInOrderFirstWins ==
  /\ Len(msTried) <= Len(Styles)
  /\ msTried = SubSeq(Styles, 1, Len(msTried))
  /\ \A k \in 1..Len(msTried) :
       msYield[k] > 0 => k = Len(msTried) /\ msPc = "returned"
  /\ C21_CachedStyles \subseteq {msTried[k] : k \in 1..Len(msTried)}
  /\ msPc = "returned" =>
       /\ msOut.style = msTried[Len(msTried)]
       /\ Len(msOut.features) = msYield[Len(msTried)]
       /\ msOut.features # <<>> \/ msOut.style = Styles[Len(Styles)]
  /\ msPc = "call" => msOut.style = ""

\* The relative batch asked the upstream and gave nothing, the absolute
\* batch gave features and won; the two later styles were never tried.
C21_AbsoluteWins ==
  /\ msPc = "returned"
  /\ msTried = <<"relative", "absolute">>
  /\ msAsked[1] > 0 /\ msYield[1] = 0
  /\ msOut.style = "absolute" /\ msOut.features # <<>>
  /\ C21_CachedStyles = {"relative", "absolute"}

\* ------------------------------------------------------------------- C30
\* The steps of the log that fetch tiles, and the grid probes.
C30_FetchRounds ==
  {k \in 1..Len(ldSteps) : ldSteps[k].step \in {"tiles", "zoom13", "zoom14"}}

C30_Probes == {k \in 1..Len(ldSteps) : ldSteps[k].step = "probe"}

\* The tile requests issued during step k of the log.
C30_Requests(k) ==
  ldSteps[k].calls - (IF k = 1 THEN 0 ELSE ldSteps[k - 1].calls)

\* The work of a request is bounded: at most three tile fetch rounds, each
\* of at most four style batches of one request per tile, no request in any
\* other step of the ladder, at most one grid probe and one incident fetch.
C30_BoundedWork ==
  /\ Cardinality(C30_FetchRounds) <= 3
  /\ \A k \in 1..Len(ldSteps) :
       IF k \in C30_FetchRounds
       THEN /\ 0 <= C30_Requests(k)
            /\ C30_Requests(k) <= 4 * ldSteps[k].tiles
       ELSE C30_Requests(k) = 0
  /\ Cardinality(C30_Probes) <= 1
  /\ ldIncFetches <= 1

\* How far the request has come: the tile rounds, the probe, the incident
\* fetch, clustering and aggregation, the return.
C30_Stage(pc) ==
  CASE pc = "call" -> 0
    [] pc = "probe" -> 1
    [] pc = "incidents" -> 2
    [] pc = "cluster" -> 3
    [] pc = "returned" -> 4

\* C30: every request performs at most three tile fetch rounds of at most
\* four style batches each, at most one grid probe and one incident fetch,
\* the relaxation steps issue no upstream request, and the request
\* completes: every step, which ends when its upstream requests have
\* returned or timed out, takes the request to a later stage, and there
\* are four stages before the return.
C30_BoundedAndCompletes ==
  []C30_BoundedWork /\ [][C30_Stage(ldPc') > C30_Stage(ldPc)]_ldVars

\* A request that went through three tile fetch rounds of four style
\* batches each, all relaxations and the probe, then fetched incidents once.
C30_ThreeFullRounds ==
  /\ ldPc = "returned"
  /\ Cardinality(C30_FetchRounds) = 3
  /\ \A k \in C30_FetchRounds : C30_Requests(k) = 4 * ldSteps[k].tiles
  /\ \E k \in 1..Len(ldSteps) : ldSteps[k].step = "relax05"
  /\ Cardinality(C30_Probes) = 1
  /\ ldIncFetches = 1

\* ------------------------------------------------------------------- C28
\* What the shared cache holds under the key of the identical requests 1
\* and 2, in Redis or in the in-memory store.
C28_Entries ==
  {cache.r[k].v : k \in (DOMAIN cache.r) \cap {ResultKey(PrParams(1))}}
    \cup {cache.m[k].v : k \in (DOMAIN cache.m) \cap {ResultKey(PrParams(1))}}

\* The result-cache entry of the two requests is absent or the complete
\* result one of them returned; with the in-memory backend it is that of
\* the request that wrote last.
C28_EntryIsAResult ==
  /\ \A v \in C28_Entries :
       \E r \in {1, 2} : prPc[r] = "returned" /\ v = prResult[r]
  /\ (~cache.redis /\ prLast # 0) =>
       MemGet(cache.m, ResultKey(PrParams(prLast)), now) = Hit(prResult[prLast])

\* A step of one request leaves the samples, incidents and result of every
\* other request as they were.
C28_OthersUntouched ==
  \A r \in PrReqs :
    prPc'[r] = prPc[r] =>
      /\ prSamples'[r] = prSamples[r]
      /\ prIncidents'[r] = prIncidents[r]
      /\ prResult'[r] = prResult[r]

\* C28: when two identical requests run concurrently and both miss the
\* result cache, the entry under their key is at every moment absent or
\* the complete result of one of them (the last write wins), and neither
\* request reads or changes the other's samples or clusters in progress.
C28_ConcurrentMissesAreSafe ==
  []C28_EntryIsAResult /\ [][C28_OthersUntouched]_vars

\* Both identical requests missed, ran the pipeline on their own samples to
\* different results, and the entry is that of the one that wrote last.
C28_BothMissedLastWriteWon ==
  /\ prPc[1] = "returned" /\ prPc[2] = "returned"
  /\ prSamples[1] # prSamples[2]
  /\ prResult[1] # prResult[2]
  /\ prLast = 2
  /\ C28_Entries = {prResult[2]}

====
